---- MODULE Spec2Model ----
(***************************************************************************)
(* A model of the Dorest namespace-resolution and dispatch engine          *)
(* (interfaces.py, resources.py, struct.py, conf.py, packages.py).         *)
(*                                                                         *)
(* A dotted module name is modelled by the sequence of its segments        *)
(* ("gen.db" is <<"gen", "db">>), so that str.split('.') and '.'.join are  *)
(* the identity on well-formed names and a name built by string formatting *)
(* from an empty part keeps the empty segment the formatting leaves in it. *)
(***************************************************************************)
EXTENDS Integers, Sequences, FiniteSets, TLC

None == "None"

\* ---------------------------------------------------------------- bounds
\* Number of interfaces.bind / resources.bind calls made during start-up.
MaxBinds == 2

\* Number of struct.redirect calls made during start-up.
MaxRedirects == 2

\* Number of entries in the configuration directory.
MaxFiles == 3

\* Number of packages.bind calls made during start-up.
MaxSiteBinds == 2

\* Number of Python files in the endpoint tree that walk_endpoints walks.
MaxPyFiles == 4

\* Number of _get_module calls made.
MaxLoads == 4

\* Number of endpoint(...) calls made while the endpoint modules load.
MaxDecorators == 3

\* Depth of nested _get_endpoint calls the interpreter allows before it
\* raises RecursionError; any value above the number of containers gives the
\* same outcomes.
MaxRecursion == 6

\* ------------------------------------------------------ the module tree
\* The importable modules of the installation the binding components run in.
BindModules ==
    { <<"gen">>, <<"gen", "db">>, <<"gen", "db", "connector">>,
      <<"db">>, <<"db", "dba">>, <<"db", "dba", "connector">>,
      <<"db", "dbb">>, <<"db", "dbb", "connector">>,
      <<"res">>,
      <<"pk">>, <<"pk", "package">>, <<"pk", "gen">>,
      <<"pk", "db">>, <<"pk", "db", "dba">> }

\* The plain functions each module defines (module, name).
BindFunctions ==
    { <<<<"gen", "db", "connector">>, "insert">>,
      <<<<"gen", "db">>, "insert">>,
      <<<<"gen">>, "insert">>,
      <<<<"db", "dba", "connector">>, "insert">>,
      <<<<"db", "dba">>, "insert">>,
      <<<<"db", "dbb", "connector">>, "insert">>,
      <<<<"pk", "gen">>, "insert">>,
      <<<<"pk", "db", "dba">>, "insert">> }

\* Directory that holds the top-level packages, as path components.
BaseDir == <<"srv">>

VARIABLES
    interface,      \* the '__interface' attributes: module -> {package, driver}
    resources,      \* the '__resources' attributes: module -> resource module
    pkgAttr,        \* the '__package' attributes: marker module -> record
    nbind,          \* number of bind calls made so far
    loader,         \* sys.modules, with the history of the loads made
    redirects,      \* the redirect attributes: module -> (method -> target)
    meta,           \* the 'meta' attributes: function -> endpoint metadata
    nredirect,      \* number of redirect calls made so far
    pyfiles,        \* the Python files beneath the endpoint root that is walked
    decorators,     \* the 'meta' attribute of endpoint and the decorators it made
    markers,        \* the directories beneath the site that hold a package.py
    pkgConf,        \* the '__conf' attributes: marker module -> configuration
    pkgStruct,      \* the '__struct' attributes: marker module -> {key: struct}
    permissions,    \* the '__permissions' attributes: marker module -> predicates
    urlpatterns,    \* the 'urlpatterns' attribute of the module bound to
    sitePackages,   \* the '__packages' attribute of the site
    wired,          \* history: marker module -> how often each wiring step ran
    nsitebind,      \* number of packages.bind calls made so far
    listing,        \* the entries of the configuration directory, in listdir order
    conf,           \* conf._conf: the tree load_dir built when conf was imported
    ret             \* outcome of the last call

bindVars == <<interface, resources, nbind, loader>>
dispatchVars == <<redirects, meta, nredirect, pyfiles, decorators>>
confVars == <<listing, conf>>
pkgVars == <<markers, pkgAttr, pkgConf, pkgStruct, permissions, urlpatterns, sitePackages,
             wired, nsitebind>>
pkgRest == <<markers, pkgConf, pkgStruct, permissions, urlpatterns, sitePackages, wired,
             nsitebind>>

vars == <<interface, resources, pkgAttr, nbind, loader, redirects, meta, nredirect, pyfiles,
          decorators,
          markers, pkgConf, pkgStruct, permissions, urlpatterns, sitePackages, wired,
          nsitebind, listing, conf, ret>>

\* ------------------------------------------------------------- helpers
Front(s) == SubSeq(s, 1, Len(s) - 1)
Last(s) == s[Len(s)]

\* str.join for a list of strings
RECURSIVE JoinStr(_, _)
JoinStr(parts, sep) ==
    IF parts = <<>> THEN ""
    ELSE IF Len(parts) = 1 THEN parts[1]
    ELSE parts[1] \o sep \o JoinStr(Tail(parts), sep)

\* '.'.join(parts) followed by the split('.') every import performs: joining
\* no part gives the empty string, whose only segment is the empty segment.
DotJoin(parts) == IF parts = <<>> THEN <<"">> ELSE parts

\* ------------------------------------------------------ the site tree
\* File-system paths that the package binder compares as text are sequences
\* of characters.
Slash == "/"
Dot == "."

\* site.__file__ of the site package 'site': /srv/site/__init__.py
SiteName == <<"site">>
InitPy == <<"_", "_", "i", "n", "i", "t", "_", "_", ".", "p", "y">>
SiteFile == <<"/", "s", "r", "v", "/", "s", "i", "t", "e", "/">> \o InitPy

\* The directories beneath the site directory, each the sequence of its
\* path names below the site; << >> is the site directory itself.
DirA == <<"a">>
DirAB == <<"a", "b">>
DirB == <<"b">>
DirN == <<"n">>
DirC == <<"c">>
SiteDirs == { << >>, <<DirA>>, <<DirA, DirN>>, <<DirAB>>, <<DirB>>, <<DirC>> }

\* the text of a sequence of characters
Text(chars) == JoinStr(chars, "")

\* the module name of a directory beneath the site
DirModule(d) == SiteName \o [i \in 1..Len(d) |-> Text(d[i])]

\* the package.py module of a directory
MarkerModule(d) == DirModule(d) \o <<"package">>

\* The modules beneath the site other than the package.py markers: package
\* 'a' has endpoints and resources, 'b' and 'c' have endpoints, 'ab' and 'a/n'
\* have neither.
SiteModules ==
    { DirModule(d) : d \in SiteDirs }
    \cup { <<"site", "a", "endpoints">>, <<"site", "a", "resources">>,
           <<"site", "b", "endpoints">>, <<"site", "c", "endpoints">> }

\* importlib.import_module succeeds exactly on the modules that exist
Importable(name) ==
    \/ name \in BindModules
    \/ name \in SiteModules
    \/ \E d \in markers : name = MarkerModule(d)

\* str.replace(old, new) on sequences of characters
RECURSIVE Replace(_, _, _)
Replace(str, old, new) ==
    IF Len(str) < Len(old) \/ old = << >> THEN str
    ELSE IF SubSeq(str, 1, Len(old)) = old
         THEN new \o Replace(SubSeq(str, Len(old) + 1, Len(str)), old, new)
         ELSE <<Head(str)>> \o Replace(Tail(str), old, new)

\* str.split(sep) for a one-character separator
RECURSIVE Split(_, _, _)
Split(str, sep, current) ==
    IF str = << >> THEN <<current>>
    ELSE IF Head(str) = sep THEN <<current>> \o Split(Tail(str), sep, << >>)
    ELSE Split(Tail(str), sep, Append(current, Head(str)))

\* 'needle in haystack' for str operands
IsSubstring(needle, haystack) ==
    \E i \in 1..(Len(haystack) - Len(needle) + 1) :
        SubSeq(haystack, i, i + Len(needle) - 1) = needle

\* os.path.join(top, name)
OsPathJoin(top, name) ==
    IF top # << >> /\ top[Len(top)] = Slash THEN top \o name
    ELSE top \o <<Slash>> \o name

\* target_dir = site.__file__.replace('__init__.py', '')
target_dir == Replace(SiteFile, InitPy, << >>)

\* the path os.walk(target_dir) reports for a directory
RECURSIVE WalkPath(_)
WalkPath(d) ==
    IF d = << >> THEN target_dir ELSE OsPathJoin(WalkPath(Front(d)), Last(d))

IsPrefix(p, d) == Len(p) <= Len(d) /\ SubSeq(d, 1, Len(p)) = p

\* The orders in which os.walk may visit the directories: top-down, each
\* directory followed by its whole subtree, sibling order as the file system
\* lists them.
WalkOrders ==
    { o \in [1..Cardinality(SiteDirs) -> SiteDirs] :
        /\ \A i, j \in DOMAIN o : i # j => o[i] # o[j]
        /\ \A i \in DOMAIN o :
              LET below == { j \in DOMAIN o : IsPrefix(o[i], o[j]) }
              IN  below = i..(i + Cardinality(below) - 1) }

\* a module is a package (a directory with __init__.py) when it has
\* sub-modules; a resource root is a package whose directory holds data files
IsPackage(m) ==
    \/ \E c \in BindModules : Len(c) = Len(m) + 1 /\ Front(c) = m
    \/ m = <<"res">>

\* module.__file__ as path components
FileOf(m) ==
    IF IsPackage(m) THEN BaseDir \o m \o <<"__init__.py">>
    ELSE BaseDir \o Front(m) \o <<Last(m) \o ".py">>

\* os.path.dirname of an absolute path given by its components
Dirname(p) == "/" \o JoinStr(Front(p), "/")

\* the branch of a caller: '<module>.<name>' for a callable, the module's
\* name for a module or a module name
BranchOf(caller) ==
    IF caller.kind = "callable" THEN caller.module \o <<caller.name>>
    ELSE caller.module

\* setattr(module, attribute, value) on an attribute table
SetAttr(attrs, m, v) ==
    [x \in (DOMAIN attrs) \cup {m} |-> IF x = m THEN v ELSE attrs[x]]

\* hasattr(module, attribute)
HasAttr(attrs, m) == m \in DOMAIN attrs

NoTarget == [package |-> <<>>, driver |-> ""]

\* the value of 'ret' before any call and the fields a call leaves unset
\* endpoint before its first call: no 'meta' attribute, no decorator made
NoDecorators == [meta |-> None, made |-> << >>]

NoRet ==
    [op |-> "", status |-> "", branch |-> <<>>, depth |-> 0, target |-> NoTarget,
     root |-> <<>>, examined |-> <<>>, unit |-> <<>>, attr |-> "", path |-> "",
     sub |-> None, method |-> "", route |-> "", chain |-> <<>>, code |-> 0,
     value |-> [kind |-> "null", value |-> "", items |-> << >>],
     args |-> [path |-> None, struct |-> None, resources |-> None, conf |-> None,
               private |-> None, templates |-> None],
     to |-> [kind |-> "", module |-> <<>>, name |-> ""], methods |-> <<>>,
     perms |-> <<>>, rebound |-> FALSE, tree |-> << >>, groups |-> {},
     node |-> [kind |-> "", name |-> <<>>, id |-> 0],
     backend |-> [kind |-> "", name |-> <<>>], bypass |-> FALSE, rootstr |-> FALSE,
     closure |-> [methods |-> {}, default |-> FALSE]]

\* -------------------------------------------------------------- conf.py
\* A configuration tree is a mapping from keys to trees, a string leaf or
\* the null leaf.
Leaf(v) == [kind |-> "str", value |-> v, items |-> << >>]
Null == [kind |-> "null", value |-> "", items |-> << >>]
Map(items) == [kind |-> "map", value |-> "", items |-> items]

NotLoaded == [status |-> "unloaded", tree |-> Map(<< >>)]

SUPPORTED_FILE_TYPES == { "yml", "yaml", "json" }

\* A file name is the sequence of its dot-separated parts.  The pattern
\* '\.(yml|yaml|json)$' matches when a last part follows a dot and is one of
\* the supported types; re.sub with it removes that last part.
HasSupportedType(name) == Len(name) >= 2 /\ Last(name) \in SUPPORTED_FILE_TYPES

StripType(name) == JoinStr(Front(name), ".")

\* _load(path): the YAML loader parses the file, the JSON branch hands the
\* path string to json.load, which reads from a file object and so raises
\* AttributeError on the str
_load(file) ==
    IF Len(file.name) >= 2 /\ Last(file.name) \in {"yml", "yaml"}
    THEN IF file.wellformed THEN [status |-> "ok", tree |-> file.content]
         ELSE [status |-> "YAMLError", tree |-> Null]
    ELSE IF Len(file.name) >= 2 /\ Last(file.name) = "json"
    THEN [status |-> "AttributeError", tree |-> Null]
    ELSE [status |-> "UnsupportedFileTypeError", tree |-> Null]

\* the dict comprehension of load_dir over listdir(path): a later file with
\* the same key replaces an earlier one, the first failing _load aborts
RECURSIVE LoadEntries(_, _)
LoadEntries(files, acc) ==
    IF files = << >> THEN [status |-> "ok", tree |-> Map(acc)]
    ELSE LET file == Head(files)
             loaded == _load(file)
         IN  IF file.isfile /\ HasSupportedType(file.name)
             THEN IF loaded.status = "ok"
                  THEN LoadEntries(Tail(files),
                           SetAttr(acc, StripType(file.name), loaded.tree))
                  ELSE [status |-> loaded.status, tree |-> Map(<< >>)]
             ELSE LoadEntries(Tail(files), acc)

\* load_dir(path), given the listing of the directory
load_dir(files) == LoadEntries(files, << >>)

\* _traverse(tree, active_branch): indexing a mapping by an absent key raises
\* KeyError, indexing a string or null by a key raises TypeError
RECURSIVE _traverse(_, _)
_traverse(tree, active_branch) ==
    LET key == Head(active_branch)
    IN  IF tree.kind # "map" THEN [status |-> "TypeError", value |-> Null]
        ELSE IF key \notin DOMAIN tree.items THEN [status |-> "KeyError", value |-> Null]
        ELSE IF Len(active_branch) > 1
        THEN _traverse(tree.items[key], Tail(active_branch))
        ELSE [status |-> "ok", value |-> tree.items[key]]

\* resolve(branch, at=None): the lookup in the common configuration; a branch
\* of None gives the whole tree
ConfResolve(branch) ==
    IF branch = << >> THEN [status |-> "ok", value |-> conf.tree]
    ELSE _traverse(conf.tree, branch)

\* the state of the package binder before any site is bound
PackagesIdle ==
    /\ markers = {}
    /\ pkgAttr = << >>
    /\ pkgConf = << >>
    /\ pkgStruct = << >>
    /\ permissions = << >>
    /\ urlpatterns = << >>
    /\ sitePackages = << >>
    /\ wired = << >>
    /\ nsitebind = 0

\* ---------------------------------------------------- packages.link
\* The marker modules (package.py) whose body calls packages.link(__name__)
LinkingMarkers == { <<"pk", "package">> } \cup { MarkerModule(d) : d \in SiteDirs }

\* the record a link call builds from its arguments
LinkRecord(args) ==
    [bound |-> FALSE, path |-> args.path, struct |-> args.struct,
     resources |-> args.resources, conf |-> args.conf,
     private |-> args.private, templates |-> args.templates]

\* link without the hasattr guard: every call installs a fresh record
linkOverwrite(attrs, module, args) ==
    SetAttr(attrs, module,
        [bound |-> FALSE, path |-> args.path, struct |-> args.struct,
         resources |-> args.resources, conf |-> args.conf,
         private |-> args.private, templates |-> args.templates])

\* link(module, path=, struct=, resources=, conf=, private=, templates=):
\* sets '__package' only when the module does not carry it yet
link(attrs, module, args) ==
    IF HasAttr(attrs, module) THEN attrs
    ELSE SetAttr(attrs, module,
             [bound |-> FALSE, path |-> args.path, struct |-> args.struct,
              resources |-> args.resources, conf |-> args.conf,
              private |-> args.private, templates |-> args.templates])

\* the arguments a marker module's own link call passes: all defaults
DefaultLinkArgs ==
    [path |-> None, struct |-> None, resources |-> None, conf |-> None,
     private |-> None, templates |-> None]

\* importing a marker module runs its body, hence its link call
ImportMarker(attrs, module) ==
    IF module \in LinkingMarkers THEN link(attrs, module, DefaultLinkArgs) ELSE attrs

\* ----------------------------------------------------------- _get_module
\* The modules the loader is asked for: packages and modules of the
\* installation, among them a top-level package named 'items'
LoadModules ==
    { <<"gen">>, <<"gen", "db">>, <<"items">>, <<"items", "views">> }

\* the names of the attributes of the dict sys.modules that a module name
\* asked for can equal
DictAttributes == { <<"items">>, <<"keys">>, <<"values">>, <<"get">>, <<"copy">> }

\* sys.modules before any import ('modules'), how often the body of each
\* module has run ('runs'), the node each name last loaded as ('last') and
\* the number of loads and of method objects created so far
NotImported ==
    [modules |-> {}, runs |-> [m \in LoadModules |-> 0], last |-> << >>,
     nloads |-> 0, nobjects |-> 0]

\* the strict and improper prefixes of a module name, the packages it needs
Prefixes(name) == { SubSeq(name, 1, k) : k \in 1..Len(name) }

\* importlib.import_module(name): the packages above the module and the
\* module itself are imported in turn, each body running when its name is
\* not in sys.modules yet; the first name that does not exist ends the import
import_module(ld, name) ==
    LET present == { q \in Prefixes(name) :
                       \A r \in Prefixes(q) : r \in LoadModules }
    IN  [status |-> IF name \in LoadModules THEN "ok" ELSE "ModuleNotFoundError",
         loader |-> [ld EXCEPT
                       !.modules = @ \cup present,
                       !.runs = [m \in LoadModules |->
                                    IF m \in present /\ m \notin ld.modules
                                    THEN @[m] + 1 ELSE @[m]]]]

\* _get_module(module) of struct, interfaces, resources, conf and packages:
\* for a str, getattr(sys.modules, module, importlib.import_module(module))
\* evaluates the import first and then looks the name up as an attribute of
\* the dict, which yields a new bound method when the dict has a method of
\* that name and the imported module otherwise; a module is returned as is
_get_module(ld, arg) ==
    LET imported == import_module(ld, arg.name)
        module == [kind |-> "module", name |-> arg.name, id |-> 0]
    IN  IF arg.kind = "module" THEN [status |-> "ok", node |-> module, loader |-> ld]
        ELSE IF imported.status # "ok"
        THEN [status |-> imported.status, node |-> NoRet.node, loader |-> imported.loader]
        ELSE IF arg.name \in DictAttributes
        THEN [status |-> "ok",
              node |-> [kind |-> "method", name |-> arg.name,
                        id |-> imported.loader.nobjects + 1],
              loader |-> [imported.loader EXCEPT !.nobjects = @ + 1]]
        ELSE [status |-> "ok", node |-> module, loader |-> imported.loader]

\* --------------------------------------------- conf.resolve(at=module)
\* The ancestor loop of _resolve_package, from index i down to 1: every
\* ancestor whose 'package' sub-module imports and carries '__package'
\* overwrites the running pkg; <<>> stands for None.  'attrs' is the
\* '__package' table, which the imports extend.
RECURSIVE ResolvePackageFrom(_, _, _, _)
ResolvePackageFrom(attrs, package_branch, i, acc) ==
    IF i < 1 THEN [pkg |-> acc.pkg, depth |-> acc.depth, attrs |-> attrs]
    ELSE LET module == SubSeq(package_branch, 1, i) \o <<"package">>
             imported == ImportMarker(attrs, module)
         IN  IF Importable(module)
             THEN ResolvePackageFrom(imported, package_branch, i - 1,
                      IF HasAttr(imported, module) THEN [pkg |-> module, depth |-> i]
                      ELSE acc)
             ELSE ResolvePackageFrom(attrs, package_branch, i - 1, acc)

_resolve_package(module) ==
    ResolvePackageFrom(pkgAttr, module, Len(module) - 1, [pkg |-> <<>>, depth |-> 0])

\* resolve(branch, at=module): the lookup in the configuration of the package
\* the module belongs to; getattr(pkg, '__conf') raises AttributeError when
\* pkg is None or the package has no configuration loaded
ConfResolveAt(branch, at) ==
    LET found == _resolve_package(at)
        base == [NoRet EXCEPT !.op = "conf.resolve.at", !.branch = at,
                              !.depth = found.depth, !.root = found.pkg]
        looked == _traverse(pkgConf[found.pkg], branch)
    IN  [attrs |-> found.attrs,
         ret |-> IF found.pkg = <<>> \/ ~HasAttr(pkgConf, found.pkg)
                 THEN [base EXCEPT !.status = "AttributeError"]
                 ELSE IF branch = << >>
                 THEN [base EXCEPT !.status = "ok", !.value = pkgConf[found.pkg]]
                 ELSE [base EXCEPT !.status = looked.status, !.value = looked.value]]

\* --------------------------------------------------------- packages.py
\* The first loop of packages.bind over os.walk(target_dir): a directory
\* holding package.py is appended unless its path is contained in the path
\* of a root already found
RECURSIVE Discover(_, _)
Discover(order, package_root_dirs) ==
    IF order = << >> THEN package_root_dirs
    ELSE LET root == WalkPath(Head(order))
         IN  Discover(Tail(order),
                 IF /\ \A k \in 1..Len(package_root_dirs) :
                          ~IsSubstring(root, package_root_dirs[k])
                    /\ Head(order) \in markers
                 THEN Append(package_root_dirs, root)
                 ELSE package_root_dirs)

DEFAULT_STRUCTURE ==
    [struct |-> "endpoints", resources |-> "resources", conf |-> "conf",
     private |-> "private", templates |-> "templates"]

\* resolve_module(key, partial_path): the package's name without '.package',
\* then the default or the given sub-namespace
resolve_module(key, partial_path, package) ==
    SelectSeq(package, LAMBDA seg : seg # "package")
        \o <<IF partial_path = None THEN DEFAULT_STRUCTURE[key] ELSE partial_path>>

\* resolve_path(key, package_path, partial_path), as path components below
\* the site directory; package_path is package.__file__ without 'package.py'
resolve_path(key, package_path, partial_path) ==
    package_path \o <<IF partial_path = None THEN DEFAULT_STRUCTURE[key] ELSE partial_path>>

\* str.strip('/') on the URL parts the configuration files and callers use
StripSlashes(v) ==
    IF v = "/shop/" THEN "shop" ELSE IF v = "v1/" THEN "v1" ELSE v

\* The configuration directories beneath the site and their listings
ConfDirs ==
    ( <<"a", "conf">> :>
        << [name |-> <<"urls", "yaml">>, isfile |-> TRUE, wellformed |-> TRUE,
            content |-> Map(("root" :> Leaf("/shop/")) @@ ("struct" :> Null))] >> )
    @@ ( <<"ab", "conf">> :>
        << [name |-> <<"urls", "yaml">>, isfile |-> TRUE, wellformed |-> TRUE,
            content |-> Map(("root" :> Leaf("ab")) @@ ("struct" :> Leaf("v2")))] >> )
    @@ ( <<"a", "n", "conf">> :>
        << [name |-> <<"urls", "json">>, isfile |-> TRUE, wellformed |-> TRUE,
            content |-> Map(("root" :> Leaf("n")) @@ ("struct" :> Null))] >> )
    @@ ( <<"b", "conf">> :>
        << [name |-> <<"site", "yaml">>, isfile |-> TRUE, wellformed |-> TRUE,
            content |-> Map("greet" :> Leaf("Hi"))] >> )
    @@ ( <<"c", "conf">> :>
        << [name |-> <<"urls", "yml">>, isfile |-> TRUE, wellformed |-> TRUE,
            content |-> Map(("root" :> Leaf("news")) @@ ("struct" :> Null))] >> )

\* load_dir on a directory beneath the site: listdir raises FileNotFoundError
\* when the directory does not exist
LoadConfDir(path) ==
    IF path \in DOMAIN ConfDirs THEN load_dir(ConfDirs[path])
    ELSE [status |-> "FileNotFoundError", tree |-> Map(<< >>)]

NoSteps ==
    [entered |-> 0, subpaths |-> 0, confload |-> 0, structimport |-> 0,
     urlbind |-> 0, resbind |-> 0, structreg |-> 0]

StepsOf(w, package) == IF HasAttr(w, package) THEN w[package] ELSE NoSteps

\* The part of the body of 'if not pkg_attr["bound"]' that follows the
\* configuration load: struct import and URL binding, resource binding and
\* struct registration.  'st' is the state reached so far.
WireStruct(st, package, root, url) ==
    LET attr == st.pkgAttr[package]
        pkg_conf == st.pkgConf[package]
        prefix == IF url = None THEN "" ELSE StripSlashes(url) \o "/"
        urls == _traverse(pkg_conf, <<"urls">>)
        urls_struct == _traverse(pkg_conf, <<"urls", "struct">>)
        urls_root == _traverse(pkg_conf, <<"urls", "root">>)
        failure ==
            IF urls.status # "ok" THEN urls.status
            ELSE IF urls_struct.status # "ok" THEN urls_struct.status
            ELSE IF urls_root.status # "ok" THEN urls_root.status
            ELSE IF urls_root.value.kind # "str" THEN "AttributeError"
            ELSE IF urls_struct.value.kind \notin {"null", "str"} THEN "AttributeError"
            ELSE "ok"
        pattern ==
            [view |-> "handle", root |-> attr.struct,
             url |-> IF urls_struct.value.kind = "null"
                     THEN prefix \o StripSlashes(urls_root.value.value) \o "/"
                     ELSE prefix \o StripSlashes(urls_root.value.value) \o "/"
                              \o StripSlashes(urls_struct.value.value) \o "/"]
        imported == [st EXCEPT !.wired = SetAttr(@, package,
                        [StepsOf(@, package) EXCEPT !.structimport = @ + 1])]
        bound == [imported EXCEPT
                    !.urlpatterns = Append(@, pattern),
                    !.wired = SetAttr(@, package,
                        [StepsOf(@, package) EXCEPT !.urlbind = @ + 1])]
        withRes ==
            IF Importable(attr.resources)
            THEN [bound EXCEPT
                    !.resources = SetAttr(@, attr.struct, attr.resources),
                    !.wired = SetAttr(@, package,
                        [StepsOf(@, package) EXCEPT !.resbind = @ + 1])]
            ELSE bound
        key == IF "urls" \in DOMAIN pkg_conf.items
                    /\ "root" \in DOMAIN pkg_conf.items["urls"].items
               THEN StripSlashes(urls_root.value.value)
               ELSE root
    IN  IF ~Importable(attr.struct) THEN imported
        ELSE IF failure # "ok" THEN [imported EXCEPT !.status = failure]
        ELSE [withRes EXCEPT
                !.pkgStruct = SetAttr(@, package, [key |-> key, struct |-> attr.struct]),
                !.wired = SetAttr(@, package,
                    [StepsOf(@, package) EXCEPT !.structreg = @ + 1])]

\* The body of 'if not pkg_attr["bound"]' up to the configuration load
WireUnbound(st, package, root, url) ==
    LET old == st.pkgAttr[package]
        package_path == SubSeq(package, 2, Len(package) - 1)
        resolved ==
            [old EXCEPT
               !.struct = resolve_module("struct", old.struct, package),
               !.resources = resolve_module("resources", old.resources, package),
               !.conf = resolve_path("conf", package_path, old.conf),
               !.private = resolve_path("private", package_path, old.private),
               !.templates = resolve_path("templates", package_path, old.templates),
               !.bound = TRUE]
        loaded == LoadConfDir(resolved.conf)
        st1 == [st EXCEPT
                  !.pkgAttr = SetAttr(@, package, resolved),
                  !.wired = SetAttr(@, package,
                      [StepsOf(@, package) EXCEPT !.entered = @ + 1,
                                                  !.subpaths = @ + 1,
                                                  !.confload = @ + 1])]
    IN  IF loaded.status # "ok" THEN [st1 EXCEPT !.status = loaded.status]
        ELSE WireStruct([st1 EXCEPT !.pkgConf = SetAttr(@, package, loaded.tree)],
                        package, root, url)

\* One round of the second loop of packages.bind
WirePackage(st, prd, url) ==
    LET root == Replace(Replace(prd, target_dir, << >>), <<Slash>>, <<Dot>>)
        parts == Split(root, Dot, << >>)
        package == SiteName \o [i \in 1..Len(parts) |-> Text(parts[i])] \o <<"package">>
        attrs == ImportMarker(st.pkgAttr, package)
        st1 == [st EXCEPT !.pkgAttr = attrs, !.packages = Append(@, package)]
    IN  IF ~Importable(package) THEN [st EXCEPT !.status = "ModuleNotFoundError"]
        ELSE IF ~HasAttr(attrs, package) THEN [st EXCEPT !.status = "AttributeError"]
        ELSE IF attrs[package].bound THEN st1
        ELSE WireUnbound(st1, package, Text(root), url)

\* The second loop of packages.bind: an exception ends the call
RECURSIVE WireAll(_, _, _)
WireAll(st, package_root_dirs, url) ==
    IF package_root_dirs = << >> \/ st.status # "ok" THEN st
    ELSE WireAll(WirePackage(st, Head(package_root_dirs), url),
                 Tail(package_root_dirs), url)

\* packages.bind(site, to=, url=), os.walk visiting the directories in 'order'
PackagesBind(url, order) ==
    LET package_root_dirs == Discover(order, << >>)
        start == [pkgAttr |-> pkgAttr, pkgConf |-> pkgConf, pkgStruct |-> pkgStruct,
                  resources |-> resources, urlpatterns |-> urlpatterns,
                  wired |-> wired, packages |-> << >>, status |-> "ok"]
        end == WireAll(start, package_root_dirs, url)
        prefix == IF url = None THEN "" ELSE StripSlashes(url) \o "/"
    IN  /\ nsitebind < MaxSiteBinds
        /\ nsitebind' = nsitebind + 1
        /\ pkgAttr' = end.pkgAttr
        /\ pkgConf' = end.pkgConf
        /\ pkgStruct' = end.pkgStruct
        /\ resources' = end.resources
        /\ wired' = end.wired
        /\ IF end.status = "ok"
           THEN /\ urlpatterns' = Append(end.urlpatterns,
                        [view |-> "walk", root |-> SiteName, url |-> prefix \o "$"])
                /\ sitePackages' = end.packages
           ELSE /\ urlpatterns' = end.urlpatterns
                /\ UNCHANGED sitePackages
        /\ ret' = [NoRet EXCEPT !.op = "packages.bind", !.status = end.status,
                                !.examined = package_root_dirs]
        /\ UNCHANGED <<markers, permissions, interface, nbind, loader, dispatchVars,
                       confVars>>

\* packages.link(module, ...) called by set-up code: _get_module imports the
\* marker module, whose own link call runs first
PackagesLink(module, args) ==
    /\ Importable(module)
    /\ pkgAttr' = link(ImportMarker(pkgAttr, module), module, args)
    /\ ret' = [NoRet EXCEPT !.op = "packages.link", !.branch = module, !.status = "ok",
                            !.args = args,
                            !.rebound = LET imported == ImportMarker(pkgAttr, module)
                                        IN  /\ HasAttr(imported, module)
                                            /\ imported[module] # LinkRecord(args)]
    /\ UNCHANGED <<pkgRest, bindVars, dispatchVars, confVars>>

\* packages.requires(module, permissions=)
PackagesRequires(module, perms) ==
    /\ Importable(module)
    /\ pkgAttr' = ImportMarker(pkgAttr, module)
    /\ permissions' = SetAttr(permissions, module, perms)
    /\ ret' = [NoRet EXCEPT !.op = "packages.requires", !.branch = module,
                            !.status = "ok", !.perms = perms,
                            !.rebound = HasAttr(permissions, module)
                                            /\ permissions[module] # perms]
    /\ UNCHANGED <<markers, pkgConf, pkgStruct, urlpatterns, sitePackages, wired,
                   nsitebind, bindVars, dispatchVars, confVars>>

\* ------------------------------------------------------ packages.walk
\* permissions=None, the default of packages.requires
NonePermissions == <<None>>

\* has_permission of the validators of permissions.py for a request whose
\* user belongs to 'groups': the group validators filter the user's groups,
\* IsAccountOwner reads kwargs['username'], which walk does not pass
has_permission(permission, groups) ==
    IF permission = "IsAccountManager"
    THEN IF "user_manager" \in groups THEN "True" ELSE "False"
    ELSE IF permission = "IsDemoUser"
    THEN IF "user_demo" \in groups THEN "True" ELSE "False"
    ELSE IF permission = "IsTrustedUser"
    THEN IF "user_trusted" \in groups THEN "True" ELSE "False"
    ELSE "KeyError"

\* all(permission().has_permission(request, view) for permission in
\* permissions): stops at the first validator that fails or raises;
\* iterating None raises TypeError
RECURSIVE AllPermitted(_, _)
AllPermitted(perms, groups) ==
    IF perms = NonePermissions THEN "TypeError"
    ELSE IF perms = << >> THEN "True"
    ELSE IF has_permission(Head(perms), groups) = "True"
    THEN AllPermitted(Tail(perms), groups)
    ELSE has_permission(Head(perms), groups)

\* The loop of walk over the site's packages; 'entries' is package_endpoints,
\* each entry standing for the walk_endpoints tree of the struct it names
RECURSIVE WalkPackages(_, _, _)
WalkPackages(packages, groups, acc) ==
    IF packages = << >> \/ acc.status # "ok" THEN acc
    ELSE LET package == Head(packages)
             perms == IF HasAttr(permissions, package) THEN permissions[package]
                      ELSE << >>
             permitted == AllPermitted(perms, groups)
         IN  WalkPackages(Tail(packages), groups,
                 IF permitted = "True"
                 THEN IF HasAttr(pkgStruct, package)
                      THEN [acc EXCEPT !.entries =
                               SetAttr(@, pkgStruct[package].key,
                                          pkgStruct[package].struct)]
                      ELSE acc
                 ELSE IF permitted = "False" THEN acc
                 ELSE [acc EXCEPT !.status = permitted])

\* walk(request, root) for the bound site
walk(groups) ==
    LET walked == WalkPackages(sitePackages, groups,
                      [status |-> "ok", entries |-> << >>])
    IN  [NoRet EXCEPT !.op = "packages.walk", !.status = walked.status,
                      !.groups = groups,
                      !.tree = IF walked.status = "ok" THEN walked.entries ELSE << >>]

\* ------------------------------------------------------- interfaces.py
\* _locate_package: the nearest strict ancestor whose 'package' sub-module
\* imports and carries '__package'; <<>> stands for None.  Returns the
\* package found and the '__package' table after the imports.
RECURSIVE LocatePackageFrom(_, _, _)
LocatePackageFrom(attrs, path, i) ==
    IF i < 1 THEN [package |-> <<>>, attrs |-> attrs]
    ELSE LET active_path == SubSeq(path, 1, i)
             marker == active_path \o <<"package">>
             imported == ImportMarker(attrs, marker)
         IN  IF Importable(marker)
             THEN IF HasAttr(imported, marker)
                  THEN [package |-> Front(marker), attrs |-> imported]
                  ELSE LocatePackageFrom(imported, path, i - 1)
             ELSE LocatePackageFrom(attrs, path, i - 1)

_locate_package(branch) == LocatePackageFrom(pkgAttr, branch, Len(branch) - 1)

\* Qualify without the test of bypass_package
QualifyAlways(backend, package, bypass_package) ==
    IF backend.kind = "str" /\ package # <<>>
    THEN package \o backend.name
    ELSE backend.name

\* the backend reference interfaces.bind loads: a str is prefixed with the
\* package found unless bypass_package is set
Qualify(backend, package, bypass_package) ==
    IF backend.kind = "str" /\ package # <<>> /\ ~bypass_package
    THEN package \o backend.name
    ELSE backend.name

\* interfaces.bind(backend, to=, using=, bypass_package=)
InterfacesBind(backend, to, using, bypass_package) ==
    LET located == _locate_package(to)
        qualified == Qualify(backend, located.package, bypass_package)
        record == [package |-> qualified, driver |-> using]
        base == [NoRet EXCEPT !.op = "interfaces.bind", !.branch = to,
                              !.root = located.package, !.unit = qualified,
                              !.backend = backend, !.bypass = bypass_package,
                              !.target = record,
                              !.rebound = HasAttr(interface, to) /\ interface[to] # record]
    IN  /\ nbind < MaxBinds
        /\ nbind' = nbind + 1
        /\ pkgAttr' = located.attrs
        /\ IF backend.kind = "str" /\ ~Importable(qualified)
           THEN /\ ret' = [base EXCEPT !.status = "ModuleNotFoundError"]
                /\ UNCHANGED interface
           ELSE /\ interface' = SetAttr(interface, to, record)
                /\ ret' = [base EXCEPT !.status = "ok"]
        /\ UNCHANGED <<resources, loader, dispatchVars, confVars, pkgRest>>

\* InterfaceScan as a nearest-wins search: it stops at the first hit
RECURSIVE InterfaceScanNearest(_, _, _)
InterfaceScanNearest(path, i, acc) ==
    IF i < 1 THEN acc
    ELSE LET active_path == SubSeq(path, 1, i)
             seen == [acc EXCEPT !.examined = Append(@, active_path)]
         IN  IF HasAttr(interface, active_path)
             THEN [seen EXCEPT !.depth = i, !.target = interface[active_path]]
             ELSE InterfaceScanNearest(path, i - 1, seen)

\* The ancestor loop of interfaces.resolve, from index i down to 1: every
\* ancestor carrying '__interface' overwrites the running (depth, target).
RECURSIVE InterfaceScan(_, _, _)
InterfaceScan(path, i, acc) ==
    IF i < 1 THEN acc
    ELSE LET active_path == SubSeq(path, 1, i)
             seen == [acc EXCEPT !.examined = Append(@, active_path)]
         IN  InterfaceScan(path, i - 1,
                 IF HasAttr(interface, active_path)
                 THEN [seen EXCEPT !.depth = i, !.target = interface[active_path]]
                 ELSE seen)

\* interfaces.resolve(caller)
InterfacesResolve(caller) ==
    LET path == BranchOf(caller)
        found == InterfaceScan(path, Len(path) - 1,
                     [depth |-> 0, target |-> NoTarget, examined |-> <<>>])
        base == [NoRet EXCEPT !.op = "interfaces.resolve", !.branch = path,
                              !.depth = found.depth, !.target = found.target,
                              !.examined = found.examined]
        module == found.target.package \o <<found.target.driver>>
                      \o DotJoin(SubSeq(path, found.depth + 1, Len(path) - 1))
    IN  IF found.depth = 0
        THEN [base EXCEPT !.status = "TypeError"]
        ELSE IF ~Importable(module)
        THEN [base EXCEPT !.status = "ModuleNotFoundError", !.unit = module]
        ELSE IF <<module, Last(path)>> \notin BindFunctions
                  /\ (module \o <<Last(path)>>) \notin BindModules
        THEN [base EXCEPT !.status = "AttributeError", !.unit = module,
                          !.attr = Last(path)]
        ELSE [base EXCEPT !.status = "ok", !.unit = module, !.attr = Last(path)]

\* ------------------------------------------------------- resources.py
\* The ancestor loop of resources.resolve
RECURSIVE ResourceScan(_, _, _)
ResourceScan(levels, i, acc) ==
    IF i < 1 THEN acc
    ELSE LET sub_branch == SubSeq(levels, 1, i)
             seen == [acc EXCEPT !.examined = Append(@, sub_branch)]
         IN  ResourceScan(levels, i - 1,
                 IF HasAttr(resources, sub_branch)
                 THEN [seen EXCEPT !.res_level = i, !.res_module = resources[sub_branch]]
                 ELSE seen)

\* ResourcesResolve keeping the binding's own segment in the result
ResourcesResolveFromBinding(obj, path) ==
    LET levels == BranchOf(obj)
        found == ResourceScan(levels, Len(levels) - 1,
                     [res_level |-> 0, res_module |-> <<>>, examined |-> <<>>])
        base == [NoRet EXCEPT !.op = "resources.resolve", !.branch = levels,
                              !.depth = found.res_level, !.root = found.res_module,
                              !.examined = found.examined, !.sub = path]
    IN  IF found.res_module = <<>>
        THEN [base EXCEPT !.status = "ModuleNotFoundError"]
        ELSE [base EXCEPT !.status = "ok",
                 !.path = Dirname(FileOf(found.res_module)) \o "/"
                          \o JoinStr(SubSeq(levels, found.res_level, Len(levels)), "/")
                          \o (IF path # None THEN "/" \o path ELSE "")]

\* resources.resolve(obj, path)
ResourcesResolve(obj, path) ==
    LET levels == BranchOf(obj)
        found == ResourceScan(levels, Len(levels) - 1,
                     [res_level |-> 0, res_module |-> <<>>, examined |-> <<>>])
        base == [NoRet EXCEPT !.op = "resources.resolve", !.branch = levels,
                              !.depth = found.res_level, !.root = found.res_module,
                              !.examined = found.examined, !.sub = path]
    IN  IF found.res_module = <<>>
        THEN [base EXCEPT !.status = "ModuleNotFoundError"]
        ELSE [base EXCEPT !.status = "ok",
                 !.path = Dirname(FileOf(found.res_module)) \o "/"
                          \o JoinStr(SubSeq(levels, found.res_level + 1, Len(levels)), "/")
                          \o (IF path # None THEN "/" \o path ELSE "")]

\* resources.bind(package, to=)
ResourcesBind(package, to) ==
    /\ nbind < MaxBinds
    /\ nbind' = nbind + 1
    /\ resources' = SetAttr(resources, to, package)
    /\ ret' = [NoRet EXCEPT !.op = "resources.bind", !.branch = to, !.root = package,
                            !.status = "ok",
                            !.rebound = HasAttr(resources, to) /\ resources[to] # package]
    /\ UNCHANGED <<interface, loader, pkgVars, dispatchVars, confVars>>

\* ------------------------------------------- the binding specification
\* Containers that set-up code binds a backend or a resource root to
BindTargets == { <<"gen">>, <<"gen", "db">>, <<"pk", "gen">> }

Backends ==
    { [kind |-> "str", name |-> <<"db">>], [kind |-> "module", name |-> <<"db">>],
      [kind |-> "str", name |-> <<"db", "dba">>] }

Drivers == { "dba", "dbb" }

ResourceRoots == { <<"res">>, <<"db">> }

SubPaths == { None, "input.txt" }

Callers ==
    { [kind |-> "callable", module |-> f[1], name |-> f[2]] : f \in BindFunctions }
    \cup { [kind |-> "module", module |-> m, name |-> ""] : m \in BindModules }

CallInterfacesBind ==
    \E backend \in Backends, to \in BindTargets, using \in Drivers,
       bypass_package \in BOOLEAN :
        InterfacesBind(backend, to, using, bypass_package)

CallResourcesBind ==
    \E package \in ResourceRoots, to \in BindTargets : ResourcesBind(package, to)

CallInterfacesResolve ==
    \E caller \in Callers :
        /\ ret' = InterfacesResolve(caller)
        /\ UNCHANGED <<bindVars, pkgVars, dispatchVars, confVars>>

CallResourcesResolve ==
    \E obj \in Callers, path \in SubPaths :
        /\ ret' = ResourcesResolve(obj, path)
        /\ UNCHANGED <<bindVars, pkgVars, dispatchVars, confVars>>

CallConfResolveAt ==
    \E at \in BindModules :
        /\ pkgAttr' = ConfResolveAt(<<"urls", "root">>, at).attrs
        /\ ret' = ConfResolveAt(<<"urls", "root">>, at).ret
        /\ UNCHANGED <<pkgRest, bindVars, dispatchVars, confVars>>

InitBind ==
    /\ interface = << >>
    /\ resources = << >>
    /\ PackagesIdle
    /\ nbind = 0
    /\ loader = NotImported
    /\ redirects = << >>
    /\ meta = << >>
    /\ nredirect = 0
    /\ pyfiles = {}
    /\ decorators = NoDecorators
    /\ listing = << >>
    /\ conf = NotLoaded
    /\ ret = NoRet

NextBind ==
    \/ CallInterfacesBind
    \/ CallResourcesBind
    \/ CallInterfacesResolve
    \/ CallResourcesResolve
    \/ CallConfResolveAt

SpecBind == InitBind /\ [][NextBind]_vars

\* ------------------------------------------------------------ struct.py
\* The containers of the structured endpoints bound at root 'api'
DispatchModules ==
    { <<"api">>, <<"api", "a">>, <<"api", "b">>, <<"api", "c">>, <<"api", "c", "d">> }

\* dir(module) in its (sorted) order: the name of each attribute, whether it
\* is a function, and the module that defines it (obj.__module__)
ModuleAttrs(m) ==
    IF m = <<"api", "a">>
    THEN << [name |-> "VERSION", kind |-> "other", module |-> <<"api", "a">>],
            [name |-> "f", kind |-> "function", module |-> <<"api", "a">>],
            [name |-> "g", kind |-> "function", module |-> <<"api", "a">>],
            [name |-> "helper", kind |-> "function", module |-> <<"api", "a">>] >>
    ELSE IF m = <<"api", "b">>
    THEN << [name |-> "f", kind |-> "function", module |-> <<"api", "a">>],
            [name |-> "h", kind |-> "function", module |-> <<"api", "b">>] >>
    ELSE << >>

NoFunc == [module |-> <<>>, name |-> ""]

FuncOf(a) == [module |-> a.module, name |-> a.name]

\* hasattr(obj, 'meta')
HasMeta(a) == FuncOf(a) \in DOMAIN meta

\* str.lower on the HTTP method names
Lower(method) ==
    IF method = "GET" THEN "get" ELSE IF method = "POST" THEN "post" ELSE method

\* the outcome of _get_endpoint: a selected function or the exception raised
Selected(func, route, chain) ==
    [status |-> "ok", func |-> func, route |-> route, chain |-> chain]

Raised(exc, route, chain) ==
    [status |-> exc, func |-> NoFunc, route |-> route, chain |-> chain]

\* ScanEndpoints without the early return on a default endpoint
RECURSIVE ScanEndpointsLast(_, _)
ScanEndpointsLast(funcs, endpoint_function) ==
    IF funcs = << >> THEN [func |-> endpoint_function, default |-> FALSE]
    ELSE ScanEndpointsLast(Tail(funcs), FuncOf(Head(funcs)))

\* The loop of _get_endpoint over the endpoint functions the module defines:
\* the first default one is returned at once, else the last one seen stays
RECURSIVE ScanEndpoints(_, _)
ScanEndpoints(funcs, endpoint_function) ==
    IF funcs = << >> THEN [func |-> endpoint_function, default |-> FALSE]
    ELSE IF meta[FuncOf(Head(funcs))].default
         THEN [func |-> FuncOf(Head(funcs)), default |-> TRUE]
         ELSE ScanEndpoints(Tail(funcs), FuncOf(Head(funcs)))

\* a str object handed to _get_endpoint in the place of a module
StrObject == "str"

\* The 'except ModuleNotFoundError' clause of _get_endpoint: the last segment
\* of the branch names a function of the parent module.  'module' is None or
\* the str handle passes when its root is given as a str; getattr on a str
\* never yields a function.
NamedLookup(method, branch, module, chain) ==
    LET target_function == Last(branch)
        parent == Front(branch)
        found == { i \in 1..Len(ModuleAttrs(parent)) :
                       ModuleAttrs(parent)[i].name = target_function }
        obj == ModuleAttrs(parent)[CHOOSE i \in found : TRUE]
    IN  IF module = None /\ parent \notin DispatchModules
        THEN Raised("ModuleNotFoundError", "named", chain)
        ELSE IF module = None /\ found # {} /\ obj.kind = "function" /\ HasMeta(obj)
        THEN IF method \in meta[FuncOf(obj)].methods
             THEN Selected(FuncOf(obj), "named", chain)
             ELSE Raised("MethodNotAllowed", "named", chain)
        ELSE Raised("AttributeError", "named", chain)

\* UsesRedirect with the redirect map consulted whatever the scan found
UsesRedirectAlways(picked) == TRUE

\* the redirect map of the container is consulted only when the scan of its
\* own endpoint functions found none
UsesRedirect(picked) == picked.func = NoFunc

\* _get_endpoint(method, branch, module); 'chain' lists the containers of the
\* calls on the stack
RECURSIVE _get_endpoint(_, _, _, _)
_get_endpoint(method, branch, module, chain) ==
    IF Len(chain) >= MaxRecursion
    THEN Raised("RecursionError", "redirect", chain)
    ELSE IF branch \in DispatchModules
    THEN LET funcs == SelectSeq(ModuleAttrs(branch),
                          LAMBDA a : HasMeta(a) /\ a.module = branch)
             picked == ScanEndpoints(funcs, NoFunc)
             here == Append(chain, branch)
             route == IF chain = << >> THEN "container" ELSE "redirect"
         IN  IF ~UsesRedirect(picked)
             THEN Selected(picked.func, route, here)
             ELSE IF ~HasAttr(redirects, branch)
             THEN Raised("AttributeError", route, here)
             ELSE IF Lower(method) \notin DOMAIN redirects[branch]
             THEN Raised("KeyError", route, here)
             ELSE LET obj == redirects[branch][Lower(method)]
                      inner == _get_endpoint(method, obj.module, None, here)
                  IN  IF obj.kind = "function"
                      THEN Selected([module |-> obj.module, name |-> obj.name],
                                    "redirect", here)
                      ELSE IF inner.status = "ModuleNotFoundError"
                      THEN NamedLookup(method, branch, module, here)
                      ELSE inner
    ELSE NamedLookup(method, branch, module, chain)

\* the root of the structured endpoints as handle receives it: the module
\* object struct.bind passes, or the dotted name of the module as a str
ModuleRoot(name) == [name |-> name, str |-> FALSE]

StrRoot(name) == [name |-> name, str |-> TRUE]

\* handle(request, root) for a request without the '**' marker: 'star' tells
\* whether the query holds '*'.  A root given as a str is handed on to
\* _get_endpoint as its 'module' argument.
handle(method, root, suffix, star) ==
    LET branch == root.name \o suffix
        got == _get_endpoint(method, branch, IF root.str THEN StrObject ELSE None, << >>)
        base == [NoRet EXCEPT !.op = "handle", !.method = method, !.branch = branch,
                              !.route = got.route, !.chain = got.chain,
                              !.rootstr = root.str]
    IN  IF got.status \in {"MethodNotAllowed", "AttributeError"}
        THEN [base EXCEPT !.status = "detail", !.attr = got.status, !.code = 403]
        ELSE IF got.status # "ok"
        THEN [base EXCEPT !.status = "raise", !.attr = got.status, !.code = 500]
        ELSE [base EXCEPT !.status = IF star THEN "help" ELSE "data", !.code = 200,
                          !.unit = got.func.module, !.attr = got.func.name]

\* RedirectAll with the two merged maps swapped: an entry the module already
\* has for a method stays
RECURSIVE RedirectAllKeep(_, _, _, _)
RedirectAllKeep(table, methods, caller, target) ==
    IF methods = << >> THEN table
    ELSE RedirectAllKeep(
             SetAttr(table, caller,
                 LET old == IF HasAttr(table, caller) THEN table[caller] ELSE << >>
                 IN  IF Lower(Head(methods)) \in DOMAIN old THEN old
                     ELSE SetAttr(old, Lower(Head(methods)), target)),
             Tail(methods), caller, target)

\* redirect(methods=, at=, to=): one setattr per method, each merging the
\* lower-cased method into the redirect map the module already has
RECURSIVE RedirectAll(_, _, _, _)
RedirectAll(table, methods, caller, target) ==
    IF methods = << >> THEN table
    ELSE RedirectAll(
             SetAttr(table, caller,
                 LET old == IF HasAttr(table, caller) THEN table[caller] ELSE << >>
                 IN  SetAttr(old, Lower(Head(methods)), target)),
             Tail(methods), caller, target)

redirect(methods, at, to) ==
    /\ nredirect < MaxRedirects
    /\ nredirect' = nredirect + 1
    /\ redirects' = RedirectAll(redirects, methods, at, to)
    /\ ret' = [NoRet EXCEPT !.op = "redirect", !.branch = at, !.status = "ok",
                            !.to = to, !.methods = methods,
                            !.rebound = /\ HasAttr(redirects, at)
                                        /\ \E k \in 1..Len(methods) :
                                              /\ Lower(methods[k]) \in DOMAIN redirects[at]
                                              /\ redirects[at][Lower(methods[k])] # to]
    /\ UNCHANGED <<meta, pyfiles, decorators, bindVars, pkgVars, confVars>>

\* ------------------------------------------------ struct.walk_endpoints
\* Names that walk_endpoints edits as text are sequences of characters.
SegApi == <<"a", "p", "i">>
SegApiV2 == <<"a", "p", "i", "v", "2">>
SegV2 == <<"v", "2">>
SegUsers == <<"u", "s", "e", "r", "s">>
InitStem == <<"_", "_", "i", "n", "i", "t", "_", "_">>
PyExt == <<".", "p", "y">>
SrvDir == <<"/", "s", "r", "v">>

\* A Python file is the sequence of the names on its path below /srv, the
\* last one being the file name without '.py'.  The files an endpoint tree
\* rooted at the package 'api' may hold:
WalkFiles ==
    { <<SegApi, InitStem>>, <<SegApi, SegUsers>>,
      <<SegApi, SegApiV2, InitStem>>, <<SegApi, SegApiV2, SegUsers>>,
      <<SegApi, SegV2, InitStem>>, <<SegApi, SegV2, SegUsers>>,
      <<SegApi, SegUsers, SegApi>> }

\* str.join on sequences of characters
RECURSIVE JoinChars(_, _)
JoinChars(parts, sep) ==
    IF parts = << >> THEN << >>
    ELSE IF Len(parts) = 1 THEN parts[1]
    ELSE parts[1] \o sep \o JoinChars(Tail(parts), sep)

\* the path of a file and the name of the module it holds
FilePath(f) == SrvDir \o <<Slash>> \o JoinChars(f, <<Slash>>) \o PyExt

ModuleOf(f) == IF Last(f) = InitStem THEN Front(f) ELSE f

ModuleName(m) == JoinChars(m, <<Dot>>)

\* a directory with an __init__.py and a file of the same name do not coexist
WalkLayouts ==
    { l \in SUBSET WalkFiles :
        /\ Cardinality(l) <= MaxPyFiles
        /\ <<SegApi, InitStem>> \in l
        /\ \A f \in l : \A k \in 2..(Len(f) - 1) :
              SubSeq(f, 1, k) \o <<InitStem>> \in l
        /\ \A f, g \in l : (f # g) => (ModuleOf(f) # ModuleOf(g)) }

\* the packages of a layout, which walk_endpoints may be rooted at
WalkRoots(l) == { Front(f) : f \in { g \in l : Last(g) = InitStem } }

\* dir(module) of a module of the endpoint tree: its own function 'run' and
\* the function 'shared' it imports from the module lib
WalkAttrs(m) ==
    << [name |-> "run", kind |-> "function", module |-> m],
       [name |-> "shared", kind |-> "function", module |-> <<"lib">>] >>

\* str.strip(ch)
RECURSIVE LStrip(_, _)
LStrip(str, ch) ==
    IF str # << >> /\ Head(str) = ch THEN LStrip(Tail(str), ch) ELSE str

RECURSIVE RStrip(_, _)
RStrip(str, ch) ==
    IF str # << >> /\ str[Len(str)] = ch THEN RStrip(Front(str), ch) ELSE str

Strip(str, ch) == RStrip(LStrip(str, ch), ch)

\* os.path.dirname(root_module.__file__) for a package
RootPath(branch) == SrvDir \o <<Slash>> \o Replace(branch, <<Dot>>, <<Slash>>)

\* the module name walk_endpoints derives from the path of a Python file
DerivedModule(branch, py_file) ==
    Strip(branch \o <<Dot>>
            \o Strip(Replace(Replace(Replace(Replace(py_file, RootPath(branch), << >>),
                                             InitStem, << >>),
                                     PyExt, << >>),
                             <<Slash>>, <<Dot>>),
                     Dot),
          Dot)

\* the files os.walk(root_path) reports
FilesUnder(branch) ==
    { f \in pyfiles :
        LET path == FilePath(f)
            root == RootPath(branch) \o <<Slash>>
        IN  Len(path) >= Len(root) /\ SubSeq(path, 1, Len(root)) = root }

\* attach_endpoint(api_tree, sub_branch, endpoint): the nested dictionaries are
\* kept as the mapping from the sequence of keys above a "*" list to the list
attach_endpoint(api_tree, sub_branch, endpoint) ==
    SetAttr(api_tree, sub_branch,
        IF HasAttr(api_tree, sub_branch) THEN Append(api_tree[sub_branch], endpoint)
        ELSE <<endpoint>>)

RECURSIVE AttachAll(_, _, _)
AttachAll(api_tree, sub_branch, funcs) ==
    IF funcs = << >> THEN api_tree
    ELSE AttachAll(attach_endpoint(api_tree, sub_branch, FuncOf(Head(funcs))),
                   sub_branch, Tail(funcs))

\* sub_branch = module.replace(branch, '').strip('.')
SubBranch(branch, module) == Strip(Replace(module, branch, << >>), Dot)

\* The loop of walk_endpoints over the derived module names, in the order
\* os.walk listed the files
RECURSIVE FillTree(_, _, _)
FillTree(branch, modules, acc) ==
    IF modules = << >> \/ acc.status # "ok" THEN acc
    ELSE LET module == Head(modules)
             found == { f \in pyfiles : ModuleName(ModuleOf(f)) = module }
             sub_module == ModuleOf(CHOOSE f \in found : TRUE)
             funcs == SelectSeq(WalkAttrs(sub_module),
                          LAMBDA a : HasMeta(a) /\ a.module = sub_module)
             sub_branch == Split(SubBranch(branch, module), Dot, << >>)
         IN  IF found = {} THEN [acc EXCEPT !.status = "ModuleNotFoundError"]
             ELSE FillTree(branch, Tail(modules),
                      [acc EXCEPT !.tree = AttachAll(@, sub_branch, funcs)])

\* walk_endpoints(branch, reduce=False), os.walk listing the files in 'order'
walk_endpoints(branch, order) ==
    LET derived == [k \in 1..Len(order) |-> DerivedModule(branch, FilePath(order[k]))]
        modules == SelectSeq(derived, LAMBDA module : module # branch)
    IN  FillTree(branch, modules, [status |-> "ok", tree |-> << >>])

\* ------------------------------------------ the dispatch specification
Methods == { "GET", "POST" }

RedirectSources == { <<"api", "a">>, <<"api", "c">>, <<"api", "c", "d">> }

RedirectTargets ==
    { [kind |-> "module", module |-> <<"api", "a">>, name |-> ""],
      [kind |-> "module", module |-> <<"api", "c">>, name |-> ""],
      [kind |-> "module", module |-> <<"api", "c", "d">>, name |-> ""],
      [kind |-> "function", module |-> <<"api", "a">>, name |-> "f"] }

RedirectMethods == { <<"GET">>, <<"GET", "POST">> }

Suffixes ==
    { <<"a">>, <<"a", "f">>, <<"a", "g">>, <<"a", "helper">>, <<"a", "VERSION">>,
      <<"a", "zz">>, <<"a", "">>, <<"b">>, <<"b", "f">>, <<"c">>, <<"c", "d">>,
      <<"zz", "f">> }

\* the metadata the endpoint decorators attached when the modules loaded
InitialMeta ==
    { ( [module |-> <<"api", "a">>, name |-> "f"] :>
            [methods |-> {"GET"}, default |-> df] )
      @@ ( [module |-> <<"api", "a">>, name |-> "g"] :>
            [methods |-> {"GET", "POST"}, default |-> dg] )
      @@ ( [module |-> <<"api", "b">>, name |-> "h"] :>
            [methods |-> {"POST"}, default |-> FALSE] )
      : df \in BOOLEAN, dg \in BOOLEAN }

CallRedirect ==
    \E methods \in RedirectMethods, at \in RedirectSources, to \in RedirectTargets :
        redirect(methods, at, to)

\* a request routed through the url pattern of struct.bind, which hands the
\* root over as a module
CallHandle ==
    \E method \in Methods, suffix \in Suffixes, star \in BOOLEAN :
        /\ ret' = handle(method, ModuleRoot(<<"api">>), suffix, star)
        /\ UNCHANGED <<dispatchVars, bindVars, pkgVars, confVars>>

InitDispatch ==
    /\ interface = << >>
    /\ resources = << >>
    /\ PackagesIdle
    /\ nbind = 0
    /\ loader = NotImported
    /\ redirects = << >>
    /\ meta \in InitialMeta
    /\ nredirect = 0
    /\ pyfiles = {}
    /\ decorators = NoDecorators
    /\ listing = << >>
    /\ conf = NotLoaded
    /\ ret = NoRet

NextDispatch ==
    \/ CallRedirect
    \/ CallHandle

SpecDispatch == InitDispatch /\ [][NextDispatch]_vars

\* ------------------------------------------- the handle specification
\* the root 'api' of the structured endpoints, as a module and as a str
Roots == { ModuleRoot(<<"api">>), StrRoot(<<"api">>) }

\* handle called with either kind of root its signature takes
CallHandleRoot ==
    \E method \in Methods, root \in Roots, suffix \in Suffixes, star \in BOOLEAN :
        /\ ret' = handle(method, root, suffix, star)
        /\ UNCHANGED <<dispatchVars, bindVars, pkgVars, confVars>>

\* the metadata the endpoint decorators attached when the modules loaded:
\* f of api.a and h of api.b are endpoints, g and helper of api.a may be, and
\* each endpoint may be marked default
HandleMeta ==
    LET F == [module |-> <<"api", "a">>, name |-> "f"]
        G == [module |-> <<"api", "a">>, name |-> "g"]
        K == [module |-> <<"api", "a">>, name |-> "helper"]
        H == [module |-> <<"api", "b">>, name |-> "h"]
        methods == F :> {"GET"} @@ G :> {"GET", "POST"} @@ K :> {"POST"} @@ H :> {"POST"}
    IN  UNION { { [func \in {F, H} \cup T |->
                      [methods |-> methods[func], default |-> func \in D] ] :
                  D \in SUBSET ({F, H} \cup T) } : T \in SUBSET {G, K} }

\* the redirect maps the redirect calls of the modules left when they loaded
HandleRedirects ==
    { << >> } \cup
    { RedirectAll(<< >>, <<"GET", "POST">>, at, to) :
          at \in { <<"api", "a">>, <<"api", "b">> },
          to \in { [kind |-> "module", module |-> <<"api", "c">>, name |-> ""],
                   [kind |-> "function", module |-> <<"api", "b">>, name |-> "h"] } }

InitHandle ==
    /\ interface = << >>
    /\ resources = << >>
    /\ PackagesIdle
    /\ nbind = 0
    /\ loader = NotImported
    /\ redirects \in HandleRedirects
    /\ meta \in HandleMeta
    /\ nredirect = 0
    /\ pyfiles = {}
    /\ decorators = NoDecorators
    /\ listing = << >>
    /\ conf = NotLoaded
    /\ ret = NoRet

NextHandle == CallHandleRoot

SpecHandle == InitHandle /\ [][NextHandle]_vars

\* ----------------------------------------------------- decorators.py
\* endpoint(methods, default): the arguments are stored in the 'meta'
\* attribute of the function endpoint itself, and the decorator returned
\* closes over them
endpoint(methods, default) ==
    LET arguments == [methods |-> methods, default |-> default]
    IN  /\ Len(decorators.made) < MaxDecorators
        /\ decorators' = [meta |-> arguments, made |-> Append(decorators.made, arguments)]
        /\ ret' = [NoRet EXCEPT !.op = "endpoint", !.closure = arguments]
        /\ UNCHANGED <<redirects, meta, nredirect, pyfiles, bindVars, pkgVars, confVars>>

\* the metadata the decorator puts on the wrapper: 'attribute' is the value
\* of endpoint.meta when the decorator is applied
WrapperMeta(closure, attribute) == attribute

\* decorator(func), for the k-th decorator endpoint returned: the wrapper
\* that replaces func gets the metadata
decorator(k, func) ==
    /\ k \in 1..Len(decorators.made)
    /\ func \notin DOMAIN meta
    /\ meta' = SetAttr(meta, func, WrapperMeta(decorators.made[k], decorators.meta))
    /\ ret' = [NoRet EXCEPT !.op = "decorator", !.unit = func.module,
                            !.attr = func.name, !.closure = decorators.made[k]]
    /\ UNCHANGED <<redirects, nredirect, pyfiles, decorators, bindVars, pkgVars, confVars>>

\* ---------------------------------------- the decoration specification
MethodLists == { {"GET"}, {"POST"}, {"GET", "POST"} }

DecoratedFuncs ==
    { [module |-> <<"api", "a">>, name |-> "f"], [module |-> <<"api", "a">>, name |-> "g"] }

CallEndpoint ==
    \E methods \in MethodLists, default \in BOOLEAN : endpoint(methods, default)

CallDecorator ==
    \E k \in 1..MaxDecorators, func \in DecoratedFuncs : decorator(k, func)

InitDecorate ==
    /\ interface = << >>
    /\ resources = << >>
    /\ PackagesIdle
    /\ nbind = 0
    /\ loader = NotImported
    /\ redirects = << >>
    /\ meta = << >>
    /\ nredirect = 0
    /\ pyfiles = {}
    /\ decorators = NoDecorators
    /\ listing = << >>
    /\ conf = NotLoaded
    /\ ret = NoRet

NextDecorate ==
    \/ CallEndpoint
    \/ CallDecorator

SpecDecorate == InitDecorate /\ [][NextDecorate]_vars

\* -------------------------------------------------------- packages.call
\* the functions of the site that packages.call is asked for
SiteFunctions == { << <<"site", "a", "endpoints">>, "view" >> }

\* The loop of packages.call over the prefixes of the caller's name, the
\* name itself first: every prefix whose 'package' sub-module imports and
\* carries '__package' overwrites the running root with the name of that
\* sub-module less its last two segments.  'attrs' is the '__package' table,
\* which the imports extend.
RECURSIVE CallRootFrom(_, _, _, _)
CallRootFrom(attrs, path, i, acc) ==
    IF i < 1 THEN [found |-> acc.found, root |-> acc.root, attrs |-> attrs]
    ELSE LET package == SubSeq(path, 1, i) \o <<"package">>
             imported == ImportMarker(attrs, package)
         IN  IF Importable(package)
             THEN CallRootFrom(imported, path, i - 1,
                      IF HasAttr(imported, package)
                      THEN [found |-> TRUE, root |-> SubSeq(package, 1, Len(package) - 2)]
                      ELSE acc)
             ELSE CallRootFrom(attrs, path, i - 1, acc)

\* call(branch, by=): the attribute the last segment of the branch names in
\* the module '<root>.<branch less its last segment>'
call(branch, by) ==
    LET located == CallRootFrom(pkgAttr, by, Len(by), [found |-> FALSE, root |-> << >>])
        module == located.root \o Front(branch)
        base == [NoRet EXCEPT !.op = "packages.call", !.branch = by,
                              !.root = located.root, !.unit = module,
                              !.attr = Last(branch)]
    IN  [attrs |-> located.attrs,
         ret |-> IF ~located.found THEN [base EXCEPT !.status = "Exception"]
                 ELSE IF ~Importable(module)
                 THEN [base EXCEPT !.status = "ModuleNotFoundError"]
                 ELSE IF <<module, Last(branch)>> \notin SiteFunctions
                 THEN [base EXCEPT !.status = "AttributeError"]
                 ELSE [base EXCEPT !.status = "ok"]]

\* ----------------------------------- the package ownership specification
\* the modules whose package is looked up: the modules of the site and the
\* package.py markers it holds
OwnedModules == SiteModules \cup { MarkerModule(d) : d \in markers }

CallBranches == { <<"a", "endpoints", "view">>, <<"endpoints", "view">> }

CallLocatePackage ==
    \E branch \in OwnedModules :
        /\ pkgAttr' = _locate_package(branch).attrs
        /\ ret' = [NoRet EXCEPT !.op = "_locate_package", !.branch = branch,
                                !.status = IF _locate_package(branch).package = << >>
                                           THEN "None" ELSE "ok",
                                !.root = _locate_package(branch).package]
        /\ UNCHANGED <<pkgRest, bindVars, dispatchVars, confVars>>

CallResolvePackage ==
    \E module \in OwnedModules :
        /\ pkgAttr' = _resolve_package(module).attrs
        /\ ret' = [NoRet EXCEPT !.op = "_resolve_package", !.branch = module,
                                !.status = IF _resolve_package(module).pkg = << >>
                                           \/ ~HasAttr(pkgConf, _resolve_package(module).pkg)
                                           THEN "AttributeError" ELSE "ok",
                                !.root = _resolve_package(module).pkg]
        /\ UNCHANGED <<pkgRest, bindVars, dispatchVars, confVars>>

CallPackagesCall ==
    \E branch \in CallBranches, by \in OwnedModules :
        /\ pkgAttr' = call(branch, by).attrs
        /\ ret' = call(branch, by).ret
        /\ UNCHANGED <<pkgRest, bindVars, dispatchVars, confVars>>

InitOwner ==
    /\ interface = << >>
    /\ resources = << >>
    /\ nbind = 0
    /\ loader = NotImported
    /\ redirects = << >>
    /\ meta = << >>
    /\ nredirect = 0
    /\ pyfiles = {}
    /\ decorators = NoDecorators
    /\ markers \in SUBSET { <<DirA>>, <<DirA, DirN>>, <<DirB>> }
    /\ pkgAttr = << >>
    /\ pkgConf = << >>
    /\ pkgStruct = << >>
    /\ permissions = << >>
    /\ urlpatterns = << >>
    /\ sitePackages = << >>
    /\ wired = << >>
    /\ nsitebind = 0
    /\ listing = << >>
    /\ conf = NotLoaded
    /\ ret = NoRet

NextOwner ==
    \/ CallLocatePackage
    \/ CallResolvePackage
    \/ CallPackagesCall

SpecOwner == InitOwner /\ [][NextOwner]_vars

\* ------------------------------------------- the tree-walk specification
\* the orders in which os.walk may list a set of files
Orders(S) ==
    { o \in [1..Cardinality(S) -> S] : \A i, j \in DOMAIN o : i # j => o[i] # o[j] }

\* the functions of the endpoint tree
WalkFuncs ==
    { [module |-> ModuleOf(f), name |-> "run"] : f \in WalkFiles }

\* the endpoint decorator tags 'shared' and all, or all but one, of the
\* modules' own functions
WalkMeta ==
    { [u \in T \cup { [module |-> <<"lib">>, name |-> "shared"] }
          |-> [methods |-> {"GET"}, default |-> FALSE]] :
      T \in { WalkFuncs } \cup { WalkFuncs \ {u} : u \in WalkFuncs } }

CallWalkEndpoints ==
    \E root \in WalkRoots(pyfiles) :
        \E order \in Orders(FilesUnder(ModuleName(root))) :
            LET walked == walk_endpoints(ModuleName(root), order)
            IN  /\ ret' = [NoRet EXCEPT !.op = "walk_endpoints", !.branch = root,
                                        !.status = walked.status, !.tree = walked.tree]
                /\ UNCHANGED <<dispatchVars, bindVars, pkgVars, confVars>>

InitWalk ==
    /\ interface = << >>
    /\ resources = << >>
    /\ PackagesIdle
    /\ nbind = 0
    /\ loader = NotImported
    /\ redirects = << >>
    /\ meta \in WalkMeta
    /\ nredirect = 0
    /\ pyfiles \in WalkLayouts
    /\ decorators = NoDecorators
    /\ listing = << >>
    /\ conf = NotLoaded
    /\ ret = NoRet

NextWalk == CallWalkEndpoints

SpecWalk == InitWalk /\ [][NextWalk]_vars

\* --------------------------------------- the configuration specification
\* The entries a configuration directory may hold.
ConfEntries ==
    { [name |-> <<"site", "yaml">>, isfile |-> TRUE, wellformed |-> TRUE,
       content |-> Map("greet" :> Map("message" :> Leaf("Hello!")))],
      [name |-> <<"site", "yml">>, isfile |-> TRUE, wellformed |-> TRUE,
       content |-> Map("greet" :> Leaf("Hi"))],
      [name |-> <<"urls", "json">>, isfile |-> TRUE, wellformed |-> TRUE,
       content |-> Map("root" :> Leaf("shop"))],
      [name |-> <<"bad", "yaml">>, isfile |-> TRUE, wellformed |-> FALSE,
       content |-> Null],
      [name |-> <<"notes", "txt">>, isfile |-> TRUE, wellformed |-> TRUE,
       content |-> Null],
      [name |-> <<"extra", "yaml">>, isfile |-> FALSE, wellformed |-> TRUE,
       content |-> Null] }

\* the listings of at most MaxFiles distinct entries, in any order
Listings ==
    { l \in UNION { [1..n -> ConfEntries] : n \in 0..MaxFiles } :
          \A i, j \in 1..Len(l) : i # j => l[i] # l[j] }

LookupBranches ==
    { <<"site", "greet", "message">>, <<"site", "greet">>, <<"site">>,
      <<"site", "missing">>, <<"site", "greet", "message", "x">>,
      <<"urls", "root">>, <<"notes">>, << >> }

\* importing conf runs '_conf = load_dir(...)'; when load_dir raises the
\* import fails and the process does not start
ImportConf ==
    /\ conf.status = "unloaded"
    /\ conf' = load_dir(listing)
    /\ ret' = [NoRet EXCEPT !.op = "conf.load_dir", !.status = conf'.status]
    /\ UNCHANGED <<listing, bindVars, pkgVars, dispatchVars>>

CallConfResolve ==
    \E branch \in LookupBranches :
        /\ conf.status = "ok"
        /\ ret' = [NoRet EXCEPT !.op = "conf.resolve", !.branch = branch,
                                !.status = ConfResolve(branch).status,
                                !.value = ConfResolve(branch).value]
        /\ UNCHANGED <<confVars, bindVars, pkgVars, dispatchVars>>

InitConf ==
    /\ interface = << >>
    /\ resources = << >>
    /\ PackagesIdle
    /\ nbind = 0
    /\ loader = NotImported
    /\ redirects = << >>
    /\ meta = << >>
    /\ nredirect = 0
    /\ pyfiles = {}
    /\ decorators = NoDecorators
    /\ listing \in Listings
    /\ conf = NotLoaded
    /\ ret = NoRet

NextConf ==
    \/ ImportConf
    \/ CallConfResolve

SpecConf == InitConf /\ [][NextConf]_vars

\* ------------------------------------- the package binder specification
BindUrls == { None, "v1/" }

LinkArgs ==
    { DefaultLinkArgs, [DefaultLinkArgs EXCEPT !.struct = "api", !.conf = "cfg"] }

CallPackagesBind ==
    \E url \in BindUrls, order \in WalkOrders : PackagesBind(url, order)

CallPackagesLink ==
    \E d \in markers, args \in LinkArgs : PackagesLink(MarkerModule(d), args)

InitPackages ==
    /\ interface = << >>
    /\ resources = << >>
    /\ nbind = 0
    /\ loader = NotImported
    /\ redirects = << >>
    /\ meta = << >>
    /\ nredirect = 0
    /\ pyfiles = {}
    /\ decorators = NoDecorators
    /\ markers \in SUBSET (SiteDirs \ { << >>, <<DirC>> })
    /\ pkgAttr = << >>
    /\ pkgConf = << >>
    /\ pkgStruct = << >>
    /\ permissions = << >>
    /\ urlpatterns = << >>
    /\ sitePackages = << >>
    /\ wired = << >>
    /\ nsitebind = 0
    /\ listing = << >>
    /\ conf = NotLoaded
    /\ ret = NoRet

NextPackages ==
    \/ CallPackagesBind
    \/ CallPackagesLink

SpecPackages == InitPackages /\ [][NextPackages]_vars

\* ------------------------------------- the registration specification
\* Set-up code registering binding records of every kind, in any order
PermissionLists ==
    { << >>, <<"IsDemoUser">>, <<"IsDemoUser", "IsTrustedUser">> }

RegisterRedirectTargets ==
    { [kind |-> "module", module |-> <<"api", "a">>, name |-> ""],
      [kind |-> "function", module |-> <<"api", "a">>, name |-> "f"] }

RegisterBackend ==
    \E backend \in Backends, using \in Drivers :
        InterfacesBind(backend, <<"pk", "gen">>, using, FALSE)

RegisterResource ==
    \E package \in ResourceRoots : ResourcesBind(package, <<"gen">>)

RegisterRedirect ==
    \E methods \in RedirectMethods, to \in RegisterRedirectTargets :
        redirect(methods, <<"api", "c">>, to)

RegisterPackage ==
    \E d \in markers, args \in LinkArgs : PackagesLink(MarkerModule(d), args)

RegisterPermissions ==
    \E d \in markers, perms \in PermissionLists :
        PackagesRequires(MarkerModule(d), perms)

InitRegister ==
    /\ interface = << >>
    /\ resources = << >>
    /\ nbind = 0
    /\ loader = NotImported
    /\ redirects = << >>
    /\ meta \in InitialMeta
    /\ nredirect = 0
    /\ pyfiles = {}
    /\ decorators = NoDecorators
    /\ markers = { <<DirA>> }
    /\ pkgAttr = << >>
    /\ pkgConf = << >>
    /\ pkgStruct = << >>
    /\ permissions = << >>
    /\ urlpatterns = << >>
    /\ sitePackages = << >>
    /\ wired = << >>
    /\ nsitebind = 0
    /\ listing = << >>
    /\ conf = NotLoaded
    /\ ret = NoRet

NextRegister ==
    \/ RegisterBackend
    \/ RegisterResource
    \/ RegisterRedirect
    \/ RegisterPackage
    \/ RegisterPermissions

SpecRegister == InitRegister /\ [][NextRegister]_vars

\* --------------------------------------------- the loader specification
\* the references components pass to _get_module: names, and module objects
\* obtained from an earlier import
LoadArgs(ld) ==
    { [kind |-> "str", name |-> m] : m \in LoadModules \cup { <<"gen", "zz">> } }
    \cup { [kind |-> "module", name |-> m] : m \in ld.modules }

CallGetModule ==
    \E arg \in LoadArgs(loader) :
        LET got == _get_module(loader, arg)
        IN  /\ loader.nloads < MaxLoads
            /\ loader' = [got.loader EXCEPT
                            !.nloads = @ + 1,
                            !.last = IF got.status = "ok"
                                     THEN SetAttr(@, arg.name, got.node) ELSE @]
            /\ ret' = [NoRet EXCEPT !.op = "_get_module", !.branch = arg.name,
                                    !.status = got.status, !.node = got.node,
                                    !.attr = arg.kind]
            /\ UNCHANGED <<interface, resources, nbind, pkgVars, dispatchVars, confVars>>

InitLoad ==
    /\ interface = << >>
    /\ resources = << >>
    /\ PackagesIdle
    /\ nbind = 0
    /\ loader = NotImported
    /\ redirects = << >>
    /\ meta = << >>
    /\ nredirect = 0
    /\ pyfiles = {}
    /\ decorators = NoDecorators
    /\ listing = << >>
    /\ conf = NotLoaded
    /\ ret = NoRet

NextLoad == CallGetModule

SpecLoad == InitLoad /\ [][NextLoad]_vars

\* ------------------------------------- the introspection specification
\* A site with the packages a and c bound once, permissions registered for
\* them, and requests to the aggregated introspection entry point
UserGroups == SUBSET { "user_demo", "user_trusted" }

RequiredPermissions ==
    { NonePermissions, << >>, <<"IsDemoUser">>, <<"IsDemoUser", "IsTrustedUser">>,
      <<"IsAccountOwner">> }

IntrospectBind ==
    \E order \in WalkOrders : nsitebind = 0 /\ PackagesBind(None, order)

IntrospectRequires ==
    \E d \in markers, perms \in RequiredPermissions :
        PackagesRequires(MarkerModule(d), perms)

IntrospectWalk ==
    \E groups \in UserGroups :
        /\ ret' = walk(groups)
        /\ UNCHANGED <<pkgVars, bindVars, dispatchVars, confVars>>

InitIntrospect ==
    /\ interface = << >>
    /\ resources = << >>
    /\ nbind = 0
    /\ loader = NotImported
    /\ redirects = << >>
    /\ meta = << >>
    /\ nredirect = 0
    /\ pyfiles = {}
    /\ decorators = NoDecorators
    /\ markers \in { { <<DirA>>, <<DirC>> }, { <<DirA>>, <<DirAB>> }, { <<DirC>> } }
    /\ pkgAttr = << >>
    /\ pkgConf = << >>
    /\ pkgStruct = << >>
    /\ permissions = << >>
    /\ urlpatterns = << >>
    /\ sitePackages = << >>
    /\ wired = << >>
    /\ nsitebind = 0
    /\ listing = << >>
    /\ conf = NotLoaded
    /\ ret = NoRet

NextIntrospect ==
    \/ IntrospectBind
    \/ IntrospectRequires
    \/ IntrospectWalk

SpecIntrospect == InitIntrospect /\ [][NextIntrospect]_vars

\* ----------------------------------------- properties, package binder
\* the directories the last packages.bind call registered as package roots
Discovered ==
    { d \in SiteDirs : \E k \in 1..Len(ret.examined) : ret.examined[k] = WalkPath(d) }

StrictAncestors(d) == { e \in SiteDirs \ { << >> } : IsPrefix(e, d) /\ e # d }

\* C9: packages.bind registers only outermost package roots: a directory is
\* discovered iff it directly contains package.py and none of its ancestor
\* directories beneath the site is discovered.
C9_OutermostRootsOnly ==
    ret.op = "packages.bind" =>
        \A d \in SiteDirs \ { << >> } :
            d \in Discovered <=>
                (d \in markers /\ StrictAncestors(d) \cap Discovered = {})

AllStepsOnce(steps) ==
    /\ steps.entered = 1 /\ steps.subpaths = 1 /\ steps.confload = 1
    /\ steps.structimport = 1 /\ steps.urlbind = 1 /\ steps.resbind = 1
    /\ steps.structreg = 1

\* C10 as stated: after a packages.bind call that completed, every package it
\* bound has had each guarded wiring step (sub-path resolution, configuration
\* load, struct import and URL binding, resource binding, struct
\* registration) executed exactly once.
C10_EveryStepExactlyOnce ==
    (ret.op = "packages.bind" /\ ret.status = "ok") =>
        \A k \in 1..Len(sitePackages) :
            /\ pkgAttr[sitePackages[k]].bound
            /\ AllStepsOnce(StepsOf(wired, sitePackages[k]))

\* C10 amended: across link and packages.bind calls a package's record, once
\* bound, is never changed again (bound stays true, the resolved sub-paths
\* stay), the guarded block is entered exactly once per bound package, which
\* runs sub-path resolution and the configuration load exactly once, and
\* struct import, URL binding, resource binding and struct registration run at
\* most once.
C10_BoundOnceStepsAtMostOnce ==
    [][ /\ \A p \in DOMAIN pkgAttr :
              /\ p \in DOMAIN pkgAttr'
              /\ pkgAttr[p].bound => pkgAttr'[p] = pkgAttr[p]
        /\ \A p \in DOMAIN pkgAttr' :
              LET steps == StepsOf(wired', p)
              IN  /\ pkgAttr'[p].bound <=> steps.entered = 1
                  /\ steps.entered <= 1
                  /\ steps.subpaths = steps.entered /\ steps.confload = steps.entered
                  /\ steps.structimport <= 1 /\ steps.urlbind <= 1
                  /\ steps.resbind <= 1 /\ steps.structreg <= 1
      ]_vars

\* a link call on a package that an earlier bind wired and a later bind
\* visited again
C10_Witness ==
    /\ ret.op = "packages.link"
    /\ nsitebind = 2
    /\ HasAttr(pkgAttr, ret.branch)
    /\ pkgAttr[ret.branch].bound
    /\ StepsOf(wired, ret.branch).entered = 1
    /\ StepsOf(wired, ret.branch).structreg = 1

\* ------------------------------------------ properties, configuration
\* the entries of the listing that are regular files of a recognized type
Recognized(l) ==
    { i \in 1..Len(l) : l[i].isfile /\ Len(l[i].name) >= 2
                           /\ l[i].name[Len(l[i].name)] \in {"yml", "yaml", "json"} }

\* C7: load_dir returns a mapping with exactly one key per well-formed
\* regular file of a recognized extension (yml, yaml, json) directly inside
\* the directory, the file name without its extension, bound to the parsed
\* tree; other files and sub-directories contribute no key.
C7_LoadDirKeys ==
    (conf.status # "unloaded" /\ \A i \in Recognized(listing) : listing[i].wellformed) =>
        /\ conf.status = "ok"
        /\ DOMAIN conf.tree.items
               = { StripType(listing[i].name) : i \in Recognized(listing) }
        /\ \A i \in Recognized(listing) :
               (\A j \in Recognized(listing) :
                    StripType(listing[j].name) = StripType(listing[i].name) => j = i)
               => conf.tree.items[StripType(listing[i].name)] = listing[i].content

SiteTree == Map("greet" :> Map("message" :> Leaf("Hello!")))

\* C8: a lookup returns the subtree or leaf at the dotted path and fails
\* with one and the same error class whether a segment is absent from a
\* mapping or a string leaf is indexed by a further segment; with
\* site = {greet: {message: "Hello!"}}, site.greet.message is "Hello!",
\* site.greet is {message: "Hello!"}, site.missing and site.greet.message.x
\* both fail.
C8_LookupOneErrorClass ==
    ret.op = "conf.resolve" =>
        /\ ret.status # "ok" =>
              \A b \in LookupBranches :
                  ConfResolve(b).status \in {"ok", ret.status}
        /\ ("site" \in DOMAIN conf.tree.items /\ conf.tree.items["site"] = SiteTree) =>
              /\ ret.branch = <<"site", "greet", "message">> =>
                    (ret.status = "ok" /\ ret.value = Leaf("Hello!"))
              /\ ret.branch = <<"site", "greet">> =>
                    (ret.status = "ok" /\ ret.value = Map("message" :> Leaf("Hello!")))
              /\ ret.branch \in { <<"site", "missing">>,
                                   <<"site", "greet", "message", "x">> } =>
                    ret.status # "ok"

\* ----------------------------------------------- properties, dispatch
\* the endpoint-tagged functions a container defines itself
DirectEndpoints(c) ==
    { FuncOf(ModuleAttrs(c)[i]) : i \in { j \in 1..Len(ModuleAttrs(c)) :
          HasMeta(ModuleAttrs(c)[j]) /\ ModuleAttrs(c)[j].module = c } }

DefaultEndpoints(c) == { f \in DirectEndpoints(c) : meta[f].default }

HasRedirect(c, method) ==
    HasAttr(redirects, c) /\ Lower(method) \in DOMAIN redirects[c]

SelectedUnit(r) == [module |-> r.unit, name |-> r.attr]

IsSelection(r) == r.op = "handle" /\ r.status \in {"data", "help"}

\* C2: on every dispatch route (by name, as a container's default or only
\* endpoint, through a redirect) the Leaf Unit selected accepts the request
\* method; a unit registered for GET only is never selected for a POST.
C2_MethodGating ==
    IsSelection(ret) => ret.method \in meta[SelectedUnit(ret)].methods

\* C3: every resolution failure of handle ends in a {detail: ...} response:
\* handle either selects a Leaf Unit or replies, and no exception escapes it.
C3_StructuredRejection ==
    ret.op = "handle" => ret.status \in {"data", "help", "detail"}

StrictPrefixes(Q) == [k \in 1..(Len(Q) - 1) |-> SubSeq(Q, 1, Len(Q) - k)]

\* the depths of the strict ancestors of Q that carry an attribute
BoundDepths(attrs, Q) == { i \in 1..(Len(Q) - 1) : SubSeq(Q, 1, i) \in DOMAIN attrs }

Shallowest(depths) == CHOOSE d \in depths : \A e \in depths : d <= e

\* C1: ancestor precedence is root-most-wins in interfaces.resolve and in
\* resources.resolve: the ancestors examined are exactly the strict prefixes
\* of the query path, longest first, and when two ancestors A (shallower) and
\* B (deeper) both carry the binding the resolution never uses B's depth: it
\* uses the record and the depth of the shallowest bound ancestor.
C1_RootMostWins ==
    /\ ret.op = "interfaces.resolve" =>
          LET depths == BoundDepths(interface, ret.branch)
          IN  /\ ret.examined = StrictPrefixes(ret.branch)
              /\ \A a, b \in depths : a < b => ret.depth # b
              /\ depths # {} =>
                    /\ ret.depth = Shallowest(depths)
                    /\ ret.target = interface[SubSeq(ret.branch, 1, Shallowest(depths))]
    /\ ret.op = "resources.resolve" =>
          LET depths == BoundDepths(resources, ret.branch)
          IN  /\ ret.examined = StrictPrefixes(ret.branch)
              /\ \A a, b \in depths : a < b => ret.depth # b
              /\ depths # {} =>
                    /\ ret.depth = Shallowest(depths)
                    /\ ret.root = resources[SubSeq(ret.branch, 1, Shallowest(depths))]

\* a backend resolution with two bound ancestors holding different records
C1_Witness ==
    /\ ret.op = "interfaces.resolve"
    /\ ret.branch = <<"gen", "db", "connector", "insert">>
    /\ HasAttr(interface, <<"gen">>) /\ HasAttr(interface, <<"gen", "db">>)
    /\ interface[<<"gen">>] # interface[<<"gen", "db">>]
    /\ ret.depth = 1
    /\ ret.target = interface[<<"gen">>]

\* C4: for every caller with a bound ancestor the backend unit loaded is
\* <backend container>.<driver>.<caller segments strictly below the binding's
\* container, without the final one>.<final segment>, callers defined
\* directly in the bound container (empty middle) included; the resolution
\* succeeds whenever that unit exists.
C4_BackendUnitPath ==
    (ret.op = "interfaces.resolve" /\ ret.depth > 0) =>
        LET middle == SubSeq(ret.branch, ret.depth + 1, Len(ret.branch) - 1)
            container == ret.target.package \o <<ret.target.driver>> \o middle
            final == Last(ret.branch)
        IN  /\ ret.unit = container
            /\ <<container, final>> \in BindFunctions =>
                  (ret.status = "ok" /\ ret.attr = final)

\* C5: resources.resolve returns the on-disk directory of the authoritative
\* (shallowest) binding's resource root, then the caller's segments below the
\* binding's container joined with '/', then '/' and the sub-path when one is
\* given and nothing otherwise; it never fails for lack of the file.
RECURSIVE PathUnder(_, _)
PathUnder(dir, segments) ==
    IF segments = <<>> THEN dir
    ELSE PathUnder(dir \o "/" \o Head(segments), Tail(segments))

OnDiskDir(root) == PathUnder("", BaseDir \o root)

C5_ResourcePath ==
    ret.op = "resources.resolve" =>
        LET depths == BoundDepths(resources, ret.branch)
        IN  /\ depths = {} => ret.status = "ModuleNotFoundError"
            /\ depths # {} =>
                  LET d == Shallowest(depths)
                      root == resources[SubSeq(ret.branch, 1, d)]
                      below == SubSeq(ret.branch, d + 1, Len(ret.branch))
                  IN  /\ ret.status = "ok"
                      /\ ret.path = PathUnder(OnDiskDir(root),
                                        IF ret.sub = None THEN below
                                        ELSE Append(below, ret.sub))
            /\ ( /\ ret.branch = <<"gen", "db", "insert">>
                 /\ ret.sub = "input.txt"
                 /\ HasAttr(resources, <<"gen">>)
                 /\ resources[<<"gen">>] = <<"res">> )
               => ret.path = "/srv/res/db/insert/input.txt"

\* the leaf unit gen.db.insert resolved against a root registered at gen
C5_Witness ==
    /\ ret.op = "resources.resolve"
    /\ ret.branch = <<"gen", "db", "insert">>
    /\ ret.sub = "input.txt"
    /\ HasAttr(resources, <<"gen">>)
    /\ resources[<<"gen">>] = <<"res">>
    /\ ret.status = "ok"
    /\ ret.path = "/srv/res/db/insert/input.txt"

\* --------------------------------------------- properties, registration
\* C11 as stated: re-registration is last-write-wins for every binding kind:
\* after a container that holds a record of a kind is registered again with a
\* different value (backend, resource, package link, permissions, redirect
\* entry of a method) it holds the value of the second registration.
C11_LastWriteWinsEveryKind ==
    (ret.rebound /\ ret.status = "ok") =>
        /\ ret.op = "interfaces.bind" => interface[ret.branch] = ret.target
        /\ ret.op = "resources.bind" => resources[ret.branch] = ret.root
        /\ ret.op = "packages.link" => pkgAttr[ret.branch] = LinkRecord(ret.args)
        /\ ret.op = "packages.requires" => permissions[ret.branch] = ret.perms
        /\ ret.op = "redirect" =>
              \A k \in 1..Len(ret.methods) :
                  redirects[ret.branch][Lower(ret.methods[k])] = ret.to

\* C11 amended: re-registration is last-write-wins for the backend, resource,
\* permission and redirect kinds (the container holds the value of the latest
\* registration, a redirect entry per method), while packages.link is
\* first-write-wins: a link call never changes a record the module already
\* carries.
C11_LastWriteWinsButLink ==
    [][ /\ (ret'.op = "interfaces.bind" /\ ret'.status = "ok") =>
              interface'[ret'.branch] = ret'.target
        /\ ret'.op = "resources.bind" => resources'[ret'.branch] = ret'.root
        /\ ret'.op = "packages.requires" => permissions'[ret'.branch] = ret'.perms
        /\ ret'.op = "redirect" =>
              /\ \A k \in 1..Len(ret'.methods) :
                    redirects'[ret'.branch][Lower(ret'.methods[k])] = ret'.to
              /\ \A c \in DOMAIN redirects : \A m \in DOMAIN redirects[c] :
                    (c # ret'.branch
                        \/ \A k \in 1..Len(ret'.methods) : Lower(ret'.methods[k]) # m)
                    => (m \in DOMAIN redirects'[c] /\ redirects'[c][m] = redirects[c][m])
        /\ ret'.op = "packages.link" =>
              /\ \A p \in DOMAIN pkgAttr :
                    p \in DOMAIN pkgAttr' /\ pkgAttr'[p] = pkgAttr[p]
              /\ HasAttr(pkgAttr', ret'.branch)
      ]_vars

\* the 'get' redirect of api.c registered a second time with another target,
\* its 'post' entry left as the first registration set it
C11_Witness ==
    /\ ret.op = "redirect"
    /\ ret.rebound
    /\ ret.methods = <<"GET">>
    /\ nredirect = 2
    /\ redirects[ret.branch]["get"] = ret.to
    /\ "post" \in DOMAIN redirects[ret.branch]
    /\ redirects[ret.branch]["post"] # ret.to

\* ------------------------------------- properties, missing bindings
\* the failures the three resolvers report, in the current state, for callers
\* none of whose ancestors carries the binding asked for
MissingBindingStatuses ==
    { InterfacesResolve(c).status :
          c \in { x \in Callers : BoundDepths(interface, BranchOf(x)) = {} } }
    \cup { ResourcesResolve(c, None).status :
          c \in { x \in Callers : BoundDepths(resources, BranchOf(x)) = {} } }
    \cup { ConfResolveAt(<<"urls", "root">>, m).ret.status :
          m \in { x \in BindModules : _resolve_package(x).pkg = <<>> } }

\* the failures interfaces.resolve reports for callers with a bound ancestor
\* whose computed backend path has no matching unit
NodeNotFoundStatuses ==
    { InterfacesResolve(c).status :
          c \in { x \in Callers : BoundDepths(interface, BranchOf(x)) # {} } } \ { "ok" }

\* C12: when no ancestor of the caller's path carries the requested binding
\* kind, interfaces.resolve, resources.resolve and the per-package
\* conf.resolve fail, return no unit or path, and all report one and the same
\* binding-not-found error, which differs from every failure reported when a
\* binding exists but the computed backend path has no matching unit.
C12_DedicatedBindingNotFound ==
    (ret.op \in {"interfaces.resolve", "resources.resolve", "conf.resolve.at"}
        /\ ret.depth = 0) =>
        /\ ret.status # "ok"
        /\ ret.unit = <<>> /\ ret.path = ""
        /\ MissingBindingStatuses = { ret.status }
        /\ ret.status \notin NodeNotFoundStatuses

\* ------------------------------------------ properties, resource scope
\* the depths of the containers on the path Q, Q itself included, that carry
\* an attribute
ScopeDepths(attrs, Q) == { i \in 1..Len(Q) : SubSeq(Q, 1, i) \in DOMAIN attrs }

\* C13: a resource binding registered at container C is in scope for C itself
\* and for every descendant of C: a resolution whose caller's path is C, a
\* Leaf Unit defined in C, or any module or Leaf Unit beneath C, succeeds with
\* the root of a binding in scope (the shallowest one) and does not fail with
\* binding-not-found.
C13_ResourceScopeIncludesContainer ==
    (ret.op = "resources.resolve" /\ ScopeDepths(resources, ret.branch) # {}) =>
        /\ ret.status = "ok"
        /\ ret.root = resources[SubSeq(ret.branch, 1,
                                  Shallowest(ScopeDepths(resources, ret.branch)))]

\* ---------------------------------------------- properties, tree walk
\* the modules strictly beneath a root
Beneath(root) ==
    { ModuleOf(f) : f \in { g \in pyfiles :
          Len(ModuleOf(g)) > Len(root) /\ SubSeq(ModuleOf(g), 1, Len(root)) = root } }

\* the endpoint-tagged functions a module of the tree defines itself
OwnEndpoints(m) ==
    { u \in DOMAIN meta : u = [module |-> m, name |-> "run"] }

\* the "*" lists a unit appears in, with its positions
Appearances(tree, u) ==
    { <<path, k>> \in UNION { { <<q, j>> : j \in 1..Len(tree[q]) } : q \in DOMAIN tree } :
          tree[path][k] = u }

\* C14: walk_endpoints(rootBranch) returns a tree in which every
\* endpoint-tagged Leaf Unit directly defined in a container strictly beneath
\* rootBranch appears exactly once, in the "*" list nested under exactly the
\* path segments of its defining container relative to rootBranch, whatever
\* the segment names are; imported units and the units of rootBranch itself do
\* not appear.
C14_WalkTreePlacement ==
    ret.op = "walk_endpoints" =>
        /\ ret.status = "ok"
        /\ \A m \in Beneath(ret.branch) : \A u \in OwnEndpoints(m) :
              \E k \in 1..Cardinality(pyfiles) :
                  Appearances(ret.tree, u)
                      = { <<SubSeq(m, Len(ret.branch) + 1, Len(m)), k>> }
        /\ \A path \in DOMAIN ret.tree : \A k \in 1..Len(ret.tree[path]) :
              /\ ret.tree[path][k].module \in Beneath(ret.branch)
              /\ ret.tree[path][k] \in OwnEndpoints(ret.tree[path][k].module)

\* ------------------------------------- properties, struct registration
\* the struct sub-namespace and the configuration directory packages.bind
\* resolves for the package of directory d
StructOf(d) ==
    LET p == MarkerModule(d)
    IN  IF HasAttr(pkgAttr, p) /\ pkgAttr[p].bound THEN pkgAttr[p].struct
        ELSE resolve_module("struct",
                 IF HasAttr(pkgAttr, p) THEN pkgAttr[p].struct ELSE None, p)

ConfDirOf(d) ==
    LET p == MarkerModule(d)
    IN  IF HasAttr(pkgAttr, p) /\ pkgAttr[p].bound THEN pkgAttr[p].conf
        ELSE resolve_path("conf", [i \in 1..Len(d) |-> Text(d[i])],
                 IF HasAttr(pkgAttr, p) THEN pkgAttr[p].conf ELSE None)

\* the files named 'urls' of a configuration directory that hold a 'root'
UrlsRoots(dir) ==
    { ConfDirs[dir][k].content.items["root"].value :
        k \in { j \in 1..Len(ConfDirs[dir]) :
                  /\ ConfDirs[dir][j].name[1] = "urls"
                  /\ "root" \in DOMAIN ConfDirs[dir][j].content.items } }

\* the package's on-disk path relative to the site
RelativePath(d) == JoinStr([i \in 1..Len(d) |-> Text(d[i])], ".")

\* C15: for every discovered package whose endpoint-struct sub-namespace
\* imports, packages.bind completes and registers the struct for
\* introspection, under the key urls.root of the package's configuration when
\* that entry exists and under the package's on-disk relative path when the
\* configuration has no urls section or no urls.root entry.
C15_StructKey ==
    ret.op = "packages.bind" =>
        \A d \in Discovered :
            (Importable(StructOf(d)) /\ ConfDirOf(d) \in DOMAIN ConfDirs) =>
                /\ ret.status = "ok"
                /\ HasAttr(pkgStruct, MarkerModule(d))
                /\ pkgStruct[MarkerModule(d)].struct = StructOf(d)
                /\ pkgStruct[MarkerModule(d)].key
                      \in IF UrlsRoots(ConfDirOf(d)) # {}
                          THEN { StripSlashes(v) : v \in UrlsRoots(ConfDirOf(d)) }
                          ELSE { RelativePath(d) }

\* ------------------------------------------ properties, introspection
\* every predicate of the package's Permission Binding passes for the request
PredicatesPass(package, groups) ==
    \/ ~HasAttr(permissions, package)
    \/ permissions[package] = NonePermissions
    \/ \A k \in 1..Len(permissions[package]) :
          has_permission(permissions[package][k], groups) = "True"

\* C16: in the aggregated introspection response of packages.walk the struct
\* entry of a package is present iff every predicate of that package's
\* Permission Binding passes for the request: a package without a Permission
\* Binding is always present, one failing predicate hides the entry, and the
\* predicates of one package never affect the entry of another.
C16_PerPackageGate ==
    ret.op = "packages.walk" =>
        /\ ret.status = "ok"
        /\ \A k \in 1..Len(sitePackages) :
              LET package == sitePackages[k]
              IN  HasAttr(pkgStruct, package) =>
                     ( ( /\ pkgStruct[package].key \in DOMAIN ret.tree
                         /\ ret.tree[pkgStruct[package].key] = pkgStruct[package].struct )
                       <=> PredicatesPass(package, ret.groups) )

\* ---------------------------------------------------- properties, loader
\* C17: node loading is idempotent and reference-stable: a load of a path P
\* that resolves returns the node of P, the very instance every earlier load
\* of P returned, and the initialization code of a container has run exactly
\* once however many loads occurred.
C17_LoadOnceSameNode ==
    [][ (ret'.op = "_get_module" /\ ret'.status = "ok") =>
            /\ ret'.node = [kind |-> "module", name |-> ret'.branch, id |-> 0]
            /\ HasAttr(loader.last, ret'.branch) =>
                  ret'.node = loader.last[ret'.branch]
            /\ \A m \in LoadModules :
                  /\ loader'.runs[m] <= 1
                  /\ m \in Prefixes(ret'.branch) => loader'.runs[m] = 1
      ]_vars

\* ------------------------------------- properties, backend qualification
\* the packages a container sits beneath: its strict ancestors whose
\* 'package' module exists and is linked, by depth
EnclosingDepths(to) ==
    { i \in 1..(Len(to) - 1) :
        LET marker == SubSeq(to, 1, i) \o <<"package">>
        IN  Importable(marker) /\ (marker \in LinkingMarkers \/ HasAttr(pkgAttr, marker)) }

Deepest(depths) == CHOOSE d \in depths : \A e \in depths : e <= d

\* C18 as stated: interfaces.bind qualifies the backend reference relative to
\* the package root only when it is a bare name (a string that is not a dotted
\* path), the target sits beneath a package and bypass_package is false; a
\* dotted path string, a module object, a target outside any package or
\* bypass_package = true leaves it unchanged.
C18_QualifiesBareNamesOnly ==
    ret.op = "interfaces.bind" =>
        ret.unit = IF /\ ret.backend.kind = "str" /\ Len(ret.backend.name) = 1
                      /\ EnclosingDepths(ret.branch) # {}
                      /\ ~ret.bypass
                   THEN SubSeq(ret.branch, 1, Deepest(EnclosingDepths(ret.branch)))
                            \o ret.backend.name
                   ELSE ret.backend.name

\* C18 amended: interfaces.bind qualifies the backend reference relative to
\* the root of the nearest enclosing package exactly when it is given as a
\* string, bare name or dotted path alike, the target sits beneath a package
\* and bypass_package is false; a module object, a target outside any package
\* or bypass_package = true leaves it unchanged; the record stored names the
\* reference so obtained.
C18_QualifiesEveryString ==
    ret.op = "interfaces.bind" =>
        /\ ret.unit = IF /\ ret.backend.kind = "str"
                         /\ EnclosingDepths(ret.branch) # {}
                         /\ ~ret.bypass
                      THEN SubSeq(ret.branch, 1, Deepest(EnclosingDepths(ret.branch)))
                               \o ret.backend.name
                      ELSE ret.backend.name
        /\ ret.status = "ok" => interface[ret.branch].package = ret.unit

\* the dotted path 'db.dba' bound beneath the package pk is stored as pk.db.dba
C18_Witness ==
    /\ ret.op = "interfaces.bind"
    /\ ret.status = "ok"
    /\ ret.branch = <<"pk", "gen">>
    /\ ret.backend = [kind |-> "str", name |-> <<"db", "dba">>]
    /\ ~ret.bypass
    /\ interface[ret.branch].package = <<"pk", "db", "dba">>

\* ------------------------------------- properties, dispatch by name
\* the attributes of container c that carry the given name
NamedAttrs(c, name) ==
    { ModuleAttrs(c)[i] : i \in { j \in 1..Len(ModuleAttrs(c)) :
          ModuleAttrs(c)[j].name = name } }

\* the endpoint-tagged functions among them
NamedEndpoints(c, name) ==
    { a \in NamedAttrs(c, name) : a.kind = "function" /\ HasMeta(a) }

\* C19: when the request branch is not a loadable container but its parent
\* is, the final segment is looked up on the parent container with exactly
\* three outcomes: an endpoint-tagged function accepting the request method
\* is selected, an endpoint-tagged function not accepting it is rejected with
\* MethodNotAllowed, and a name that is absent, not a function or a function
\* without endpoint metadata is rejected with AttributeError.
C19_NamedLookupOutcomes ==
    (ret.op = "handle" /\ ret.branch \notin DispatchModules
        /\ Front(ret.branch) \in DispatchModules) =>
        LET found == NamedEndpoints(Front(ret.branch), Last(ret.branch))
        IN  /\ \A a \in found :
                  IF ret.method \in meta[FuncOf(a)].methods
                  THEN IsSelection(ret) /\ SelectedUnit(ret) = FuncOf(a)
                  ELSE ret.status = "detail" /\ ret.attr = "MethodNotAllowed"
            /\ found = {} => (ret.status = "detail" /\ ret.attr = "AttributeError")

C21_CycleFailsFast ==
    ret.op = "handle" =>
        \A i, j \in 1..(Len(ret.chain) - 1) : i # j => ret.chain[i] # ret.chain[j]

\* ------------------------------------------ properties, decoration
\* C22: the metadata a decorator attaches to a function are the arguments of
\* the endpoint(...) call that made this decorator, whatever other
\* endpoint(...) calls were made between that call and the application.
C22_MetaIsOwnArguments ==
    ret.op = "decorator" => meta[SelectedUnit(ret)] = ret.closure

\* --------------------------------- properties, bound and wired packages
\* C23: a package is never left marked bound without being wired: in every
\* state packages.bind can reach, the calls that raise part-way included, a
\* package whose 'bound' flag is true has its configuration tree attached.
C23_BoundHasConf ==
    \A p \in DOMAIN pkgAttr : pkgAttr[p].bound => p \in DOMAIN pkgConf

\* ----------------------------------- properties, package ownership
\* the markers above a module: the strict prefixes of its name whose
\* 'package' sub-module exists
MarkedAncestors(module) ==
    { i \in 1..(Len(module) - 1) : Importable(SubSeq(module, 1, i) \o <<"package">>) }

\* the package root each lookup names for a module
LocatedRoot(module) == _locate_package(module).package

ResolvedRoot(module) == Front(_resolve_package(module).pkg)

CalledRoot(module) ==
    CallRootFrom(pkgAttr, module, Len(module), [found |-> FALSE, root |-> << >>]).root

\* C24: the package ownership lookups agree: for a module with one or more
\* ancestors that carry a package marker, nested package roots included,
\* interfaces._locate_package, conf._resolve_package and packages.call name
\* the same package root.
C24_OwnershipLookupsAgree ==
    (ret.op \in {"_locate_package", "_resolve_package", "packages.call"}
        /\ MarkedAncestors(ret.branch) # {}) =>
        /\ LocatedRoot(ret.branch) = ResolvedRoot(ret.branch)
        /\ LocatedRoot(ret.branch) = CalledRoot(ret.branch)
====
